---- MODULE Spec2Model ----
(***************************************************************************)
(* SillyTavern-CacheMonitor: the fetch interceptor (stream tap), the usage *)
(* extractor, the session aggregator and the miss diagnoser, as a state    *)
(* machine.  One action per event-loop task of the extension: a handler    *)
(* runs to completion between two awaits, so every action is the whole     *)
(* synchronous segment of the code between two suspension points.          *)
(*                                                                         *)
(* Conventions.                                                            *)
(*   - A nullable JavaScript value is a sequence of length 0 (null) or 1.  *)
(*   - A JavaScript string that the code inspects character by character   *)
(*     (message content, model names, the threshold field) is a tuple of   *)
(*     characters; message text is a tuple of character codes because it   *)
(*     is hashed.                                                          *)
(*   - Numbers that may be absent in a JSON payload are Absent (-1); token *)
(*     counts are unsigned, so -1 is free.                                 *)
(***************************************************************************)
EXTENDS Integers, Sequences, FiniteSets, TLC

\* ------------------------------------------------------------------ bounds
\* Requests the host dispatches through the interceptor in one behaviour.
MaxRequests == 2
\* Times the clock advances in one behaviour.
MaxTicks == 1
\* Chunks a response text is cut into.
MaxChunks == 3
\* Messages of the chats the miss diagnoser is run on.
MaxMessages == 5
\* Largest number of digits typed into the threshold field.
MaxDigits == 3
\* Largest token count of the small usage records the cost model is run on.
MaxTokens == 2
\* Length of the longest message content of the workload.
MaxContent == 450

\* ------------------------------------------------------- program constants
\* requestHistory capacity (length > 100 => shift).
HistoryCap == 100
\* Cache time-to-live in ms (timeSince > 300000).
TtlMs == 300000
\* contentPreview length (substring(0, 100)).
PreviewLen == 100
\* findStringDiff: contextChars, and the prefix kept when one string is empty.
ContextChars == 200
EmptyContextChars == 500
\* defaultSettings.wasteThreshold.
DefaultWasteThreshold == 3
\* Date.now() of the first state, and the amount one clock step adds.
T0 == 1000000
TickMs == 400000

Null == <<>>
Some(x) == <<x>>
IsNull(o) == o = <<>>
Val(o) == o[1]

Absent == -1

Min(a, b) == IF a < b THEN a ELSE b
Max(a, b) == IF a >= b THEN a ELSE b

\* ------------------------------------------------------------ 32-bit hash
\* One round of hashString: hash = ((hash << 5) - hash) + char; hash & hash.
\* The 32-bit value is kept as two 16-bit halves <<hi, lo>> (unsigned), which
\* is 31 * hash + char modulo 2^32.
HashStep(h, c) ==
    LET lo == 31 * h[2] + c
        hi == 31 * h[1] + (lo \div 65536)
    IN  <<hi % 65536, lo % 65536>>

\* The rounds over str[i..j], by halves so that the evaluation stays shallow
\* on long strings; the hash after the first half is bound as a value before
\* the second half is computed from it.
RECURSIVE HashRange(_, _, _, _)
HashRange(h, str, i, j) ==
    IF i > j THEN h
    ELSE IF i = j THEN HashStep(h, str[i])
    ELSE LET mid == (i + j) \div 2
             rest == { HashRange(h1, str, mid + 1, j) : h1 \in {HashRange(h, str, i, mid)} }
         IN  CHOOSE r \in rest : TRUE

\* The rounds over str[i..].
HashFrom(h, str, i) == HashRange(h, str, i, Len(str))

\* hash & hash yields a signed 32-bit integer; toString(16) of it is
\* injective, so the hash string is represented by that integer.
hashString(str) ==
    LET h == HashFrom(<<0, 0>>, str, 1)
    IN  IF h[1] >= 32768 THEN (h[1] - 65536) * 65536 + h[2]
        ELSE h[1] * 65536 + h[2]

\* --------------------------------------------------------------- messages
\* A message of the outbound request body: role, content (a string, or
\* undefined when the key is missing) and an optional cache_control marker.
StrContent(codes) == [kind |-> "string", chars |-> codes]
UndefinedContent == [kind |-> "undefined", chars |-> <<>>]
Msg(role, content, cc) == [role |-> role, content |-> content, cache_control |-> cc]

RoleCodes(role) ==
    CASE role = "system"    -> <<115, 121, 115, 116, 101, 109>>
      [] role = "user"      -> <<117, 115, 101, 114>>
      [] role = "assistant" -> <<97, 115, 115, 105, 115, 116, 97, 110, 116>>

Quoted(codes) == <<34>> \o codes \o <<34>>

\* JSON.stringify(msg): keys in insertion order; a key whose value is
\* undefined is omitted.  Content characters are drawn from letters, digits,
\* spaces and the punctuation of the lore and depth markers, none of which
\* JSON.stringify escapes.
JsonStringifyMsg(msg) ==
    <<123>> \o Quoted(<<114, 111, 108, 101>>) \o <<58>> \o Quoted(RoleCodes(msg.role))
    \o (IF msg.content.kind = "string"
        THEN <<44>> \o Quoted(<<99, 111, 110, 116, 101, 110, 116>>) \o <<58>>
             \o Quoted(msg.content.chars)
        ELSE <<>>)
    \o (IF msg.cache_control
        THEN <<44>> \o Quoted(<<99, 97, 99, 104, 101, 95, 99, 111, 110, 116, 114, 111, 108>>)
             \o <<58, 123>> \o Quoted(<<116, 121, 112, 101>>) \o <<58>>
             \o Quoted(<<101, 112, 104, 101, 109, 101, 114, 97, 108>>) \o <<125>>
        ELSE <<>>)
    \o <<125>>

\* The messages of the workload's request bodies; ToolCall has no content.
SysA == Msg("system", StrContent(<<65>>), FALSE)
UserHi == Msg("user", StrContent(<<104, 105>>), FALSE)
UserGo == Msg("user", StrContent(<<103, 111>>), FALSE)
ToolCall == Msg("assistant", UndefinedContent, FALSE)

\* Messages with the markers the pattern detector looks for:
\* "[Lore:a][Lore:b]", "[Lore:b][Lore:a]", "[Lore:a][Lore:c]", "[Lore:a][Lore:a]",
\* "<lore_entry a>x", "<lore_entry a>y", "depth=1" and "Depth: 2".
SysB == Msg("system", StrContent(<<66>>), FALSE)
Asst == Msg("assistant", StrContent(<<111, 107>>), FALSE)
LoreBracket(name) == <<91, 76, 111, 114, 101, 58>> \o name \o <<93>>
LoreTag(name) == <<60, 108, 111, 114, 101, 95, 101, 110, 116, 114, 121, 32>> \o name \o <<62>>
LoreAB == Msg("system", StrContent(LoreBracket(<<97>>) \o LoreBracket(<<98>>)), FALSE)
LoreBA == Msg("system", StrContent(LoreBracket(<<98>>) \o LoreBracket(<<97>>)), FALSE)
LoreAC == Msg("system", StrContent(LoreBracket(<<97>>) \o LoreBracket(<<99>>)), FALSE)
LoreAA == Msg("system", StrContent(LoreBracket(<<97>>) \o LoreBracket(<<97>>)), FALSE)
LoreTagX == Msg("system", StrContent(LoreTag(<<97>>) \o <<120>>), FALSE)
LoreTagY == Msg("system", StrContent(LoreTag(<<97>>) \o <<121>>), FALSE)
Depth1 == Msg("system", StrContent(<<100, 101, 112, 116, 104, 61, 49>>), FALSE)
Depth2 == Msg("system", StrContent(<<68, 101, 112, 116, 104, 58, 32, 50>>), FALSE)
\* Contents for the string diff: two long ones differing in one character in
\* the middle, an empty one, and SysA's content under a cache_control marker.
LongContent(c) == [i \in 1..MaxContent |-> IF i = MaxContent \div 2 THEN c ELSE 120]
UserLongA == Msg("user", StrContent(LongContent(97)), FALSE)
UserLongB == Msg("user", StrContent(LongContent(98)), FALSE)
UserEmpty == Msg("user", StrContent(<<>>), FALSE)
SysACached == Msg("system", StrContent(<<65>>), TRUE)
DiffMsgs == {UserLongA, UserLongB, UserEmpty, SysACached}

MarkerMsgs == {SysB, LoreAB, LoreBA, LoreAC, LoreAA, LoreTagX, LoreTagY, Depth1, Depth2}

WorkloadMsgs == {SysA, UserHi, UserGo, ToolCall, Asst} \cup MarkerMsgs \cup DiffMsgs

M1 == <<SysA, UserHi>>
M2 == <<SysA, UserHi, UserGo>>
MBad == <<SysA, ToolCall>>

\* hashString(JSON.stringify(msg)), tabulated once over the workload.
MsgHashTable == [m \in WorkloadMsgs |-> hashString(JsonStringifyMsg(m))]
msgHash(msg) == MsgHashTable[msg]

Take(s, n) == SubSeq(s, 1, Min(Len(s), n))

\* hashMessages throws a TypeError when a message has no string content and
\* JSON.stringify(msg.content) is undefined: fullContent.substring fails.
hashMessagesThrows(messages) ==
    /\ ~IsNull(messages)
    /\ \E i \in 1..Len(Val(messages)) : Val(messages)[i].content.kind = "undefined"

\* hashMessages(messages) where it returns: [] for null, one fingerprint per
\* message otherwise (index is 0-based in the code and here).
hashMessages(messages) ==
    IF IsNull(messages) THEN <<>>
    ELSE [i \in 1..Len(Val(messages)) |->
            LET msg == Val(messages)[i]
            IN  [index |-> i - 1,
                 role |-> msg.role,
                 contentPreview |-> Take(msg.content.chars, PreviewLen),
                 fullContent |-> msg.content.chars,
                 hash |-> msgHash(msg),
                 hasCacheControl |-> msg.cache_control]]

\* ------------------------------------------------------ divergence locator
\* The while loop from diffIndex = i: it stops at the first index below the
\* shorter length whose characters differ, or at the shorter length.
FirstDiff(s1, s2, i) ==
    LET D == { k \in i..(Min(Len(s1), Len(s2)) - 1) : s1[k + 1] # s2[k + 1] }
    IN  IF D = {} THEN Max(i, Min(Len(s1), Len(s2)))
        ELSE CHOOSE k \in D : \A m \in D : k <= m

\* findStringDiff: index (0-based) of the first differing character; 0 when
\* either string is empty.
findStringDiffIndex(s1, s2) ==
    IF Len(s1) = 0 \/ Len(s2) = 0 THEN 0 ELSE FirstDiff(s1, s2, 0)

\* str.substring(from, to) for 0 <= from <= to.
Substring(str, from, to) == SubSeq(str, from + 1, Min(Len(str), to))
Ellipsis == <<46, 46, 46>>

\* One context of findStringDiff: the window from start to end with "..." on
\* each side that was cut.
contextOf(str, start, end) ==
    (IF start > 0 THEN Ellipsis ELSE <<>>)
    \o Substring(str, start, end)
    \o (IF end < Len(str) THEN Ellipsis ELSE <<>>)

\* The result of findStringDiff for two non-empty strings that first differ
\* at diffIndex, with the window starting at start.
diffAround(str1, str2, diffIndex, start) ==
    [diffIndex |-> diffIndex,
     markerPos |-> Some(diffIndex - start + (IF start > 0 THEN 3 ELSE 0)),
     context1 |-> contextOf(str1, start, Min(Len(str1), diffIndex + ContextChars)),
     context2 |-> contextOf(str2, start, Min(Len(str2), diffIndex + ContextChars)),
     lengthDiff |-> IF Len(str1) # Len(str2) THEN Some(<<Len(str1), Len(str2)>>) ELSE Null]

diffAt(str1, str2, diffIndex) ==
    diffAround(str1, str2, diffIndex, Max(0, diffIndex - ContextChars))

\* findStringDiff(str1, str2) with the default contextChars; an empty string
\* is falsy, and the early return has neither markerPos nor lengthDiff.
findStringDiff(str1, str2) ==
    IF Len(str1) = 0 \/ Len(str2) = 0
    THEN [diffIndex |-> 0, markerPos |-> Null,
          context1 |-> Substring(str1, 0, EmptyContextChars),
          context2 |-> Substring(str2, 0, EmptyContextChars),
          lengthDiff |-> Null]
    ELSE diffAt(str1, str2, FirstDiff(str1, str2, 0))

\* The last index, from i on, at which the hashes differ; -1 when none does.
LastHashDiff(prevHashes, currHashes, i) ==
    LET D == { k \in i..(Min(Len(prevHashes), Len(currHashes)) - 1) :
                 prevHashes[k + 1].hash # currHashes[k + 1].hash }
    IN  IF D = {} THEN -1 ELSE CHOOSE k \in D : \A m \in D : m <= k

\* The loop of findDivergencePoint from index i: the first index below the
\* shorter length at which the hashes differ; -1 when none does.
RECURSIVE FirstHashDiff(_, _, _)
FirstHashDiff(prevHashes, currHashes, i) ==
    IF i >= Min(Len(prevHashes), Len(currHashes)) THEN -1
    ELSE IF prevHashes[i + 1].hash # currHashes[i + 1].hash THEN i
    ELSE FirstHashDiff(prevHashes, currHashes, i + 1)

\* findDivergencePoint(prevHashes, currHashes), both non-null.
findDivergencePoint(prevHashes, currHashes) ==
    LET i == FirstHashDiff(prevHashes, currHashes, 0)
    IN  IF i >= 0
        THEN [divergeIndex |-> i, reason |-> "Message changed",
              diffIndex |-> findStringDiffIndex(prevHashes[i + 1].fullContent,
                                                currHashes[i + 1].fullContent),
              diff |-> Some(findStringDiff(prevHashes[i + 1].fullContent,
                                           currHashes[i + 1].fullContent)),
              prevContent |-> Some(prevHashes[i + 1].fullContent),
              currContent |-> Some(currHashes[i + 1].fullContent)]
        ELSE IF Len(prevHashes) # Len(currHashes)
        THEN [divergeIndex |-> Min(Len(prevHashes), Len(currHashes)),
              reason |-> "Message count changed", diffIndex |-> -1, diff |-> Null,
              prevContent |-> Null, currContent |-> Null]
        ELSE [divergeIndex |-> -1, reason |-> "No divergence detected", diffIndex |-> -1,
              diff |-> Null,
              prevContent |-> Null, currContent |-> Null]

\* -------------------------------------------------------- pattern detector
\* Character codes: the regular expressions of detectContentPatterns carry
\* the i flag, and \s matches white space.
LowerCode(c) == IF c >= 65 /\ c <= 90 THEN c + 32 ELSE c
IsSpace(c) == c \in {9, 10, 11, 12, 13, 32}
IsDigit(c) == c >= 48 /\ c <= 57

\* Does the literal lit (lower case) stand at position i of content?
LitAt(content, i, lit) ==
    /\ i + Len(lit) - 1 <= Len(content)
    /\ \A j \in 1..Len(lit) : LowerCode(content[i + j - 1]) = lit[j]

\* The first position from i on that holds ch; 0 when there is none.
NextIndexOf(content, i, ch) ==
    LET S == { k \in i..Len(content) : content[k] = ch }
    IN  IF S = {} THEN 0 ELSE CHOOSE k \in S : \A m \in S : k <= m

\* The first position from i on that holds one of the characters chars, where
\* a match of a pattern starting with one of them can begin; past the end when
\* there is none.
NextStart(content, i, chars) ==
    LET S == { k \in i..Len(content) : content[k] \in chars }
    IN  IF S = {} THEN Len(content) + 1 ELSE CHOOSE k \in S : \A m \in S : k <= m

\* String.prototype.trim
RECURSIVE TrimLeft(_)
TrimLeft(str) == IF Len(str) > 0 /\ IsSpace(str[1]) THEN TrimLeft(Tail(str)) ELSE str
RECURSIVE TrimRight(_)
TrimRight(str) ==
    IF Len(str) > 0 /\ IsSpace(str[Len(str)])
    THEN TrimRight(SubSeq(str, 1, Len(str) - 1)) ELSE str
Trim(str) == TrimRight(TrimLeft(str))

\* The names captured by /<lore_entry\s+([^>]+)>/gi from position i on.
LoreTagLit == <<60, 108, 111, 114, 101, 95, 101, 110, 116, 114, 121>>
RECURSIVE loreEntryTags(_, _)
loreEntryTags(content, i) ==
    IF i > Len(content) THEN <<>>
    ELSE LET j == i + Len(LoreTagLit)
             k == NextIndexOf(content, j, 62)
         IN  IF LitAt(content, i, LoreTagLit) /\ k > 0 /\ k - j >= 2 /\ IsSpace(content[j])
             THEN <<Trim(SubSeq(content, j, k - 1))>> \o loreEntryTags(content, k + 1)
             ELSE loreEntryTags(content, NextStart(content, i + 1, {60}))

\* The names captured by /\[Lore:\s*([^\]]+)\]/gi from position i on.
LoreBracketLit == <<91, 108, 111, 114, 101, 58>>
RECURSIVE loreBrackets(_, _)
loreBrackets(content, i) ==
    IF i > Len(content) THEN <<>>
    ELSE LET j == i + Len(LoreBracketLit)
             k == NextIndexOf(content, j, 93)
         IN  IF LitAt(content, i, LoreBracketLit) /\ k > 0 /\ k - j >= 1
             THEN <<Trim(SubSeq(content, j, k - 1))>> \o loreBrackets(content, k + 1)
             ELSE loreBrackets(content, NextStart(content, i + 1, {91}))

\* The end (exclusive) of the run of characters satisfying the class from i.
RECURSIVE separatorsEnd(_, _)
separatorsEnd(content, i) ==
    IF i <= Len(content) /\ (content[i] \in {58, 61} \/ IsSpace(content[i]))
    THEN separatorsEnd(content, i + 1) ELSE i
RECURSIVE digitsEnd(_, _)
digitsEnd(content, i) ==
    IF i <= Len(content) /\ IsDigit(content[i]) THEN digitsEnd(content, i + 1) ELSE i
RECURSIVE digitCodesValue(_, _, _, _)
digitCodesValue(content, i, j, acc) ==
    IF i >= j THEN acc ELSE digitCodesValue(content, i + 1, j, 10 * acc + content[i] - 48)

\* The values captured by /depth[:\s=]+(\d+)/gi from position i on.
DepthLit == <<100, 101, 112, 116, 104>>
RECURSIVE depthMarkers(_, _)
depthMarkers(content, i) ==
    IF i > Len(content) THEN <<>>
    ELSE LET j == i + Len(DepthLit)
             k == separatorsEnd(content, j)
             e == digitsEnd(content, k)
         IN  IF LitAt(content, i, DepthLit) /\ k > j /\ e > k
             THEN <<digitCodesValue(content, k, e, 0)>> \o depthMarkers(content, e)
             ELSE depthMarkers(content, NextStart(content, i + 1, {68, 100}))

\* detectContentPatterns(content): the lore entry names (tags first, then
\* brackets) and the depth values; the prompt-component flags, which no
\* decision reads, are left out.
detectContentPatterns(content) ==
    LET names == loreEntryTags(content, 1) \o loreBrackets(content, 1)
        depths == depthMarkers(content, 1)
    IN  [hasLoreEntries |-> Len(names) > 0, loreEntryNames |-> names,
         hasDepthMarkers |-> Len(depths) > 0, depthValues |-> depths]

\* detectContentPatterns, tabulated once over the contents of the workload
\* and the empty string.
PatternTable ==
    [c \in { m.content.chars : m \in WorkloadMsgs } \cup {<<>>} |->
        detectContentPatterns(c)]
patternsOf(content) == PatternTable[content]

\* detectLoreOrderingIssues(prevEntries, currEntries)
InSeq(e, s) == \E i \in 1..Len(s) : s[i] = e
detectLoreOrderingIssues(prevEntries, currEntries) ==
    IF Len(prevEntries) = 0 \/ Len(currEntries) = 0 THEN Null
    ELSE LET sameEntries ==
                 /\ Len(prevEntries) = Len(currEntries)
                 /\ \A i \in 1..Len(prevEntries) : InSeq(prevEntries[i], currEntries)
             added == SelectSeq(currEntries, LAMBDA e : ~InSeq(e, prevEntries))
             removed == SelectSeq(prevEntries, LAMBDA e : ~InSeq(e, currEntries))
         IN  IF sameEntries
             THEN (IF \E i \in 1..Len(prevEntries) : prevEntries[i] # currEntries[i]
                   THEN Some([type |-> "reordering", added |-> <<>>, removed |-> <<>>])
                   ELSE Null)
             ELSE IF Len(added) > 0 \/ Len(removed) > 0
             THEN Some([type |-> "different_entries", added |-> added, removed |-> removed])
             ELSE Null

\* positionRatio < 0.2 and positionRatio < 0.8 for positionRatio =
\* divergeIndex / totalMessages; with totalMessages = 0 the ratio is NaN or
\* Infinity and both tests are false.
RatioBelowFifth(divergeIndex, totalMessages) ==
    totalMessages > 0 /\ 5 * divergeIndex < totalMessages
RatioBelowFourFifths(divergeIndex, totalMessages) ==
    totalMessages > 0 /\ 5 * divergeIndex < 4 * totalMessages

\* The location by the position ratio alone, without the test on the index.
analyzeDivergenceLocationByRatio(divergeIndex, totalMessages, prevPatterns, currPatterns) ==
    IF RatioBelowFifth(divergeIndex, totalMessages)
    THEN [location |-> "early", likelyCause |-> "system_prompt_change",
          severity |-> "medium"]
    ELSE IF RatioBelowFourFifths(divergeIndex, totalMessages)
    THEN [location |-> "middle", likelyCause |-> "injected_content",
          severity |-> "medium"]
    ELSE [location |-> "late", likelyCause |-> "chat_history", severity |-> "low"]

\* The location by the index and the four-fifths test, without the test of
\* the ratio against a fifth.
analyzeDivergenceLocationByIndex(divergeIndex, totalMessages, prevPatterns, currPatterns) ==
    IF divergeIndex < 3
    THEN [location |-> "early", likelyCause |-> "system_prompt_change",
          severity |-> "medium"]
    ELSE IF RatioBelowFourFifths(divergeIndex, totalMessages)
    THEN [location |-> "middle", likelyCause |-> "injected_content",
          severity |-> "medium"]
    ELSE [location |-> "late", likelyCause |-> "chat_history", severity |-> "low"]

\* The analysis with no cause of its own for an early divergence whose lore
\* entries differ: only a reordering is reported as a lore cause.
analyzeDivergenceLocationNoKeywords(divergeIndex, totalMessages, prevPatterns, currPatterns) ==
    LET anyLore == prevPatterns.hasLoreEntries \/ currPatterns.hasLoreEntries
        loreIssue == IF anyLore
                     THEN detectLoreOrderingIssues(prevPatterns.loreEntryNames,
                                                   currPatterns.loreEntryNames)
                     ELSE Null
    IN  IF RatioBelowFifth(divergeIndex, totalMessages) \/ divergeIndex < 3
        THEN IF ~IsNull(loreIssue) /\ Val(loreIssue).type = "reordering"
             THEN [location |-> "early", likelyCause |-> "lorebook_ordering",
                   severity |-> "high"]
             ELSE IF prevPatterns.hasDepthMarkers \/ currPatterns.hasDepthMarkers
             THEN [location |-> "early", likelyCause |-> "depth_configuration",
                   severity |-> "high"]
             ELSE [location |-> "early", likelyCause |-> "system_prompt_change",
                   severity |-> "medium"]
        ELSE IF RatioBelowFourFifths(divergeIndex, totalMessages)
        THEN IF anyLore
             THEN [location |-> "middle", likelyCause |-> "lorebook_depth_injection",
                   severity |-> "high"]
             ELSE [location |-> "middle", likelyCause |-> "injected_content",
                   severity |-> "medium"]
        ELSE [location |-> "late", likelyCause |-> "chat_history", severity |-> "low"]

\* analyzeDivergenceLocation(divergeIndex, totalMessages, .., prevPatterns,
\* currPatterns)
analyzeDivergenceLocation(divergeIndex, totalMessages, prevPatterns, currPatterns) ==
    LET anyLore == prevPatterns.hasLoreEntries \/ currPatterns.hasLoreEntries
        loreIssue == IF anyLore
                     THEN detectLoreOrderingIssues(prevPatterns.loreEntryNames,
                                                   currPatterns.loreEntryNames)
                     ELSE Null
    IN  IF RatioBelowFifth(divergeIndex, totalMessages) \/ divergeIndex < 3
        THEN IF ~IsNull(loreIssue)
             THEN [location |-> "early",
                   likelyCause |-> IF Val(loreIssue).type = "reordering"
                                   THEN "lorebook_ordering" ELSE "lorebook_keywords",
                   severity |-> IF Val(loreIssue).type = "reordering"
                                THEN "high" ELSE "medium"]
             ELSE IF prevPatterns.hasDepthMarkers \/ currPatterns.hasDepthMarkers
             THEN [location |-> "early", likelyCause |-> "depth_configuration",
                   severity |-> "high"]
             ELSE [location |-> "early", likelyCause |-> "system_prompt_change",
                   severity |-> "medium"]
        ELSE IF RatioBelowFourFifths(divergeIndex, totalMessages)
        THEN IF anyLore
             THEN [location |-> "middle", likelyCause |-> "lorebook_depth_injection",
                   severity |-> "high"]
             ELSE [location |-> "middle", likelyCause |-> "injected_content",
                   severity |-> "medium"]
        ELSE [location |-> "late", likelyCause |-> "chat_history", severity |-> "low"]

\* ---------------------------------------------------------- miss diagnoser
NoPrevious ==
    [messages |-> Null, messageHashes |-> Null, systemPrompt |-> Null,
     systemPromptHash |-> Null, timestamp |-> 0]

\* The TTL test firing at the limit itself.
ttlExpiredAtLimit(timeSince) == timeSince >= TtlMs

\* timeSince > 300000
ttlExpired(timeSince) == timeSince > TtlMs

\* The TTL check without the reason of a first request.
ttlCheckSilentFirst(prev, now) ==
    LET timeSince == now - prev.timestamp
    IN  IF prev.timestamp # 0
        THEN [reasons |-> IF ttlExpired(timeSince) THEN <<"TTL expired">> ELSE <<>>,
              ttlWarning |-> ttlExpired(timeSince),
              timeSinceLastRequest |-> Some(timeSince)]
        ELSE [reasons |-> <<>>, ttlWarning |-> FALSE, timeSinceLastRequest |-> Null]

\* The TTL check of analyzeCacheMiss.  A timestamp of 0 is the code's null
\* (both are falsy).
ttlCheck(prev, now) ==
    LET timeSince == now - prev.timestamp
    IN  IF prev.timestamp # 0
        THEN [reasons |-> IF ttlExpired(timeSince) THEN <<"TTL expired">> ELSE <<>>,
              ttlWarning |-> ttlExpired(timeSince),
              timeSinceLastRequest |-> Some(timeSince)]
        ELSE [reasons |-> <<"First request - no previous cache">>,
              ttlWarning |-> FALSE, timeSinceLastRequest |-> Null]

\* The primary diagnosis chosen by location before lore issues.
primaryDiagnosisLocationFirst(loreIssue, locationAnalysis) ==
    IF locationAnalysis.location = "late" THEN Some("Chat History Change")
    ELSE IF locationAnalysis.location = "early" THEN Some("Early Prompt Instability")
    ELSE IF ~IsNull(loreIssue) /\ Val(loreIssue).type = "reordering"
    THEN Some("Lorebook Ordering Issue")
    ELSE IF ~IsNull(loreIssue) /\ Val(loreIssue).type = "different_entries"
    THEN Some("Different Lorebook Entries")
    ELSE IF locationAnalysis.likelyCause = "depth_configuration"
    THEN Some("Depth Configuration Issue")
    ELSE IF locationAnalysis.likelyCause = "lorebook_depth_injection"
    THEN Some("Lorebook Depth Issue")
    ELSE Null

\* The if-else chain that sets analysis.primaryDiagnosis (its issue).
primaryDiagnosis(loreIssue, locationAnalysis) ==
    IF ~IsNull(loreIssue) /\ Val(loreIssue).type = "reordering"
    THEN Some("Lorebook Ordering Issue")
    ELSE IF ~IsNull(loreIssue) /\ Val(loreIssue).type = "different_entries"
    THEN Some("Different Lorebook Entries")
    ELSE IF locationAnalysis.likelyCause = "depth_configuration"
    THEN Some("Depth Configuration Issue")
    ELSE IF locationAnalysis.likelyCause = "lorebook_depth_injection"
    THEN Some("Lorebook Depth Issue")
    ELSE IF locationAnalysis.location = "late" THEN Some("Chat History Change")
    ELSE IF locationAnalysis.location = "early" THEN Some("Early Prompt Instability")
    ELSE Null

\* The divergence check: findDivergencePoint when the previous snapshot has
\* fingerprints.
divergenceOf(prev, currentHashes) ==
    IF IsNull(prev.messageHashes) THEN Null
    ELSE Some(findDivergencePoint(Val(prev.messageHashes), currentHashes))

\* divergence.prevContent || ''
contentOr(content) == IF IsNull(content) THEN <<>> ELSE Val(content)

\* The part of the analysis that is filled in only for a divergence.
NoDiagnosis ==
    [prevPatterns |-> Null, currPatterns |-> Null, loreIssue |-> Null,
     locationAnalysis |-> Null, primaryDiagnosis |-> Null]

diagnosisRecord(prevPatterns, currPatterns, loreIssue, locationAnalysis) ==
    [prevPatterns |-> Some(prevPatterns), currPatterns |-> Some(currPatterns),
     loreIssue |-> loreIssue,
     locationAnalysis |-> Some(locationAnalysis),
     primaryDiagnosis |-> primaryDiagnosis(loreIssue, locationAnalysis)]

\* The lore check and the location analysis on the patterns of both sides.
diagnosisFromPatterns(divergeIndex, totalMessages, prevPatterns, currPatterns) ==
    diagnosisRecord(prevPatterns, currPatterns,
        IF prevPatterns.hasLoreEntries \/ currPatterns.hasLoreEntries
        THEN detectLoreOrderingIssues(prevPatterns.loreEntryNames,
                                      currPatterns.loreEntryNames)
        ELSE Null,
        analyzeDivergenceLocation(divergeIndex, totalMessages, prevPatterns, currPatterns))

\* The body of `if (divergence.divergeIndex >= 0)` past the reason.
divergenceDiagnosis(divergence, totalMessages) ==
    diagnosisFromPatterns(divergence.divergeIndex, totalMessages,
                          patternsOf(contentOr(divergence.prevContent)),
                          patternsOf(contentOr(divergence.currContent)))

\* The system-prompt check without the test of the current first message's
\* role.
systemPromptChangedAnyRole(prev, currentMessages) ==
    /\ ~IsNull(currentMessages)
    /\ Len(Val(currentMessages)) > 0
    /\ ~IsNull(prev.systemPromptHash)
    /\ Val(prev.systemPromptHash) # msgHash(Val(currentMessages)[1])

\* The system-prompt check.
systemPromptChanged(prev, currentMessages) ==
    /\ ~IsNull(currentMessages)
    /\ Len(Val(currentMessages)) > 0
    /\ Val(currentMessages)[1].role = "system"
    /\ ~IsNull(prev.systemPromptHash)
    /\ Val(prev.systemPromptHash) # msgHash(Val(currentMessages)[1])

\* The analysis object from the results of its checks.
analysisRecord(ttl, div, diverged, diagnosis, sysChanged) ==
    [reasons |-> ttl.reasons
                 \o (IF diverged THEN <<Val(div).reason>> ELSE <<>>)
                 \o (IF sysChanged THEN <<"System prompt changed">> ELSE <<>>),
     divergence |-> div,
     ttlWarning |-> ttl.ttlWarning,
     timeSinceLastRequest |-> ttl.timeSinceLastRequest,
     prevPatterns |-> diagnosis.prevPatterns,
     currPatterns |-> diagnosis.currPatterns,
     loreIssue |-> diagnosis.loreIssue,
     locationAnalysis |-> diagnosis.locationAnalysis,
     primaryDiagnosis |-> diagnosis.primaryDiagnosis]

analysisOf(ttl, div, totalMessages, sysChanged) ==
    IF ~IsNull(div) /\ Val(div).divergeIndex >= 0
    THEN analysisRecord(ttl, div, TRUE, divergenceDiagnosis(Val(div), totalMessages),
                        sysChanged)
    ELSE analysisRecord(ttl, div, FALSE, NoDiagnosis, sysChanged)

\* analyzeCacheMiss(currentMessages, currentHashes) against previousRequest at
\* time now: the TTL check, the divergence check with its pattern, lore,
\* location and primary diagnosis, and the system-prompt check.
analyzeCacheMiss(prev, currentMessages, currentHashes, now) ==
    analysisOf(ttlCheck(prev, now), divergenceOf(prev, currentHashes),
               Len(currentHashes), systemPromptChanged(prev, currentMessages))

\* -------------------------------------------------------- usage extractor
\* A decoded JSON payload: type, model ("" when absent), a usage object and a
\* message object (message_start), each possibly absent.
NoUsage ==
    [present |-> FALSE, prompt_tokens |-> Absent, input_tokens |-> Absent,
     completion_tokens |-> Absent, output_tokens |-> Absent,
     cache_read_input_tokens |-> Absent, cached_tokens |-> Absent,
     cache_creation_input_tokens |-> Absent]
NoMessage == [present |-> FALSE, model |-> <<>>, usage |-> NoUsage]

\* JavaScript a || b on numbers: 0 and undefined are falsy.
Or(a, b) == IF a > 0 THEN a ELSE b
\* JavaScript a || b on strings: "" and undefined are falsy.
OrStr(a, b) == IF Len(a) > 0 THEN a ELSE b

ClaudeStr == <<"c", "l", "a", "u", "d", "e">>

\* parseUsageFromEvent after JSON.parse succeeded: the generic usage rule is
\* tested first, then message_delta, then message_start.
usageFromData(data) ==
    IF data.usage.present
    THEN Some([model |-> data.model,
               input_tokens |-> Or(data.usage.prompt_tokens, Or(data.usage.input_tokens, 0)),
               output_tokens |-> Or(data.usage.completion_tokens, Or(data.usage.output_tokens, 0)),
               cache_read_input_tokens |->
                   Or(data.usage.cache_read_input_tokens, Or(data.usage.cached_tokens, 0)),
               cache_creation_input_tokens |-> Or(data.usage.cache_creation_input_tokens, 0)])
    ELSE IF data.type = "message_delta" /\ data.usage.present
    THEN Some([model |-> ClaudeStr,
               input_tokens |-> Or(data.usage.input_tokens, 0),
               output_tokens |-> Or(data.usage.output_tokens, 0),
               cache_read_input_tokens |-> Or(data.usage.cache_read_input_tokens, 0),
               cache_creation_input_tokens |-> Or(data.usage.cache_creation_input_tokens, 0)])
    ELSE IF data.type = "message_start" /\ data.message.present /\ data.message.usage.present
    THEN Some([model |-> OrStr(data.message.model, ClaudeStr),
               input_tokens |-> Or(data.message.usage.input_tokens, 0),
               output_tokens |-> Or(data.message.usage.output_tokens, 0),
               cache_read_input_tokens |-> Or(data.message.usage.cache_read_input_tokens, 0),
               cache_creation_input_tokens |->
                   Or(data.message.usage.cache_creation_input_tokens, 0)])
    ELSE Null

\* /claude/i.test(model): a case-insensitive substring test.
Lower(ch) ==
    CASE ch = "C" -> "c" [] ch = "L" -> "l" [] ch = "A" -> "a"
      [] ch = "U" -> "u" [] ch = "D" -> "d" [] ch = "E" -> "e"
      [] OTHER -> ch

isClaude(model) ==
    \E i \in 1..(Len(model) - 5) :
        \A j \in 1..6 : Lower(model[i + j - 1]) = ClaudeStr[j]

\* ------------------------------------------------------------------ state
VARIABLES
    sessionStats,        \* the session aggregator
    currentRequest,      \* the single current-request record
    previousRequest,     \* the single previous-request snapshot
    detectedClaudeUsage,
    dailyStats,          \* today's entry of the persistent daily statistics
    chat,                \* the host's chat messages
    toasts,              \* number of 'Cache Waste Warning' toasts shown
    settings,            \* extension_settings[extensionName]
    now,                 \* Date.now()
    reqs,                \* the intercepted fetch calls, by dispatch order
    nextReq              \* index of the next fetch call

globals == <<sessionStats, currentRequest, previousRequest, detectedClaudeUsage,
             dailyStats, chat, toasts>>
vars == <<sessionStats, currentRequest, previousRequest, detectedClaudeUsage,
          dailyStats, chat, toasts, settings, now, reqs, nextReq>>

\* The module-level mutable state processUsageData works on, as one record.
G ==
    [sessionStats |-> sessionStats, currentRequest |-> currentRequest,
     previousRequest |-> previousRequest, detectedClaudeUsage |-> detectedClaudeUsage,
     dailyStats |-> dailyStats, chat |-> chat, toasts |-> toasts]

SetG(g) ==
    /\ sessionStats' = g.sessionStats
    /\ currentRequest' = g.currentRequest
    /\ previousRequest' = g.previousRequest
    /\ detectedClaudeUsage' = g.detectedClaudeUsage
    /\ dailyStats' = g.dailyStats
    /\ chat' = g.chat
    /\ toasts' = g.toasts

EmptyStats ==
    [totalRequests |-> 0, cacheHits |-> 0, cacheMisses |-> 0, consecutiveMisses |-> 0,
     totalInputTokens |-> 0, totalCacheReadTokens |-> 0, totalCacheWriteTokens |-> 0,
     lastUsage |-> Null, requestHistory |-> <<>>]

\* -------------------------------------------------------- session aggregator
\* updateDailyStats: today's counters (the cost sums are not modelled).
updateDailyStats(d, usage) ==
    [requests |-> d.requests + 1,
     inputTokens |-> d.inputTokens + usage.input_tokens,
     outputTokens |-> d.outputTokens + usage.output_tokens,
     cacheReadTokens |-> d.cacheReadTokens + usage.cache_read_input_tokens,
     cacheWriteTokens |-> d.cacheWriteTokens + usage.cache_creation_input_tokens]

\* saveUsageToMessage: the counters go to the LAST chat message, and only if
\* it is not a user message.
saveUsageToMessage(c, usage) ==
    IF Len(c) = 0 \/ c[Len(c)].is_user THEN c
    ELSE [c EXCEPT ![Len(c)].extra =
            Some([cache_read_input_tokens |-> usage.cache_read_input_tokens,
                  cache_creation_input_tokens |-> usage.cache_creation_input_tokens,
                  input_tokens |-> usage.input_tokens,
                  output_tokens |-> usage.output_tokens])]

\* countRecord without the streak reset on a hit.
countRecordKeepsStreak(ss, usage) ==
    LET hadCacheRead == usage.cache_read_input_tokens > 0
        hadCacheWrite == usage.cache_creation_input_tokens > 0
    IN  [ss EXCEPT
            !.totalRequests = @ + 1,
            !.totalInputTokens = @ + usage.input_tokens,
            !.totalCacheReadTokens = @ + usage.cache_read_input_tokens,
            !.totalCacheWriteTokens = @ + usage.cache_creation_input_tokens,
            !.lastUsage = Some(usage),
            !.cacheHits = IF hadCacheRead THEN @ + 1 ELSE @,
            !.cacheMisses = IF ~hadCacheRead /\ hadCacheWrite THEN @ + 1 ELSE @,
            !.consecutiveMisses = IF ~hadCacheRead /\ hadCacheWrite THEN @ + 1 ELSE @]

\* countRecord with every record that is not a hit counted as a miss.
countRecordMissWithoutWrite(ss, usage) ==
    LET hadCacheRead == usage.cache_read_input_tokens > 0
    IN  [ss EXCEPT
            !.totalRequests = @ + 1,
            !.totalInputTokens = @ + usage.input_tokens,
            !.totalCacheReadTokens = @ + usage.cache_read_input_tokens,
            !.totalCacheWriteTokens = @ + usage.cache_creation_input_tokens,
            !.lastUsage = Some(usage),
            !.cacheHits = IF hadCacheRead THEN @ + 1 ELSE @,
            !.cacheMisses = IF ~hadCacheRead THEN @ + 1 ELSE @,
            !.consecutiveMisses = IF hadCacheRead THEN 0 ELSE @ + 1]

\* The counters of processUsageData (totalRequests++ ... consecutiveMisses).
countRecord(ss, usage) ==
    LET hadCacheRead == usage.cache_read_input_tokens > 0
        hadCacheWrite == usage.cache_creation_input_tokens > 0
    IN  [ss EXCEPT
            !.totalRequests = @ + 1,
            !.totalInputTokens = @ + usage.input_tokens,
            !.totalCacheReadTokens = @ + usage.cache_read_input_tokens,
            !.totalCacheWriteTokens = @ + usage.cache_creation_input_tokens,
            !.lastUsage = Some(usage),
            !.cacheHits = IF hadCacheRead THEN @ + 1 ELSE @,
            !.cacheMisses = IF ~hadCacheRead /\ hadCacheWrite THEN @ + 1 ELSE @,
            !.consecutiveMisses = IF hadCacheRead THEN 0
                                  ELSE IF hadCacheWrite THEN @ + 1 ELSE @]

\* requestHistory.push(entry); if (length > 100) shift().
pushHistory(h, entry) ==
    LET h1 == Append(h, entry)
    IN  IF Len(h1) > HistoryCap THEN Tail(h1) ELSE h1

\* The snapshot with the system prompt hashed over its content alone.
snapshotOfContentHash(messages, currentHashes, t) ==
    LET first == IF Len(Val(messages)) > 0 /\ Val(messages)[1].role = "system"
                 THEN Some(Val(messages)[1]) ELSE Null
    IN  [messages |-> messages,
         messageHashes |-> Some(currentHashes),
         systemPrompt |-> first,
         systemPromptHash |->
             IF IsNull(first) THEN Null ELSE Some(hashString(Val(first).content.chars)),
         timestamp |-> t]

\* The snapshot stored as previousRequest (messages non-null).
snapshotOf(messages, currentHashes, t) ==
    LET first == IF Len(Val(messages)) > 0 /\ Val(messages)[1].role = "system"
                 THEN Some(Val(messages)[1]) ELSE Null
    IN  [messages |-> messages,
         messageHashes |-> Some(currentHashes),
         systemPrompt |-> first,
         systemPromptHash |->
             IF IsNull(first) THEN Null ELSE Some(msgHash(Val(first))),
         timestamp |-> t]

\* ------------------------------------------------------------ cost model
\* calculateCosts.  Prices are per million tokens and are kept in hundredths
\* (3.75 is 375), so a cost is an integer number of CostUnit-ths of the price
\* unit: tokens / 1000000 * price = (tokens * hundredths) / CostUnit.  The
\* integer value is the exact value of the JavaScript expression; the signs
\* and the equalities stated about the costs below are the same in IEEE
\* arithmetic (sums and products of non-negative numbers, and identical
\* expressions).
PerMillion == 1000000
CostUnit == 100 * PerMillion

LowerLetter(ch) ==
    CASE ch = "O" -> "o" [] ch = "P" -> "p" [] ch = "U" -> "u" [] ch = "S" -> "s"
      [] ch = "H" -> "h" [] ch = "A" -> "a" [] ch = "I" -> "i" [] ch = "K" -> "k"
      [] OTHER -> ch

\* /lit/i.test(model) for a literal pattern.
testI(model, lit) ==
    \E i \in 0..(Len(model) - Len(lit)) :
        \A j \in 1..Len(lit) : LowerLetter(model[i + j]) = lit[j]

Prices(inputPrice, outputPrice, cacheWritePrice, cacheReadPrice) ==
    [inputPrice |-> inputPrice, outputPrice |-> outputPrice,
     cacheWritePrice |-> cacheWritePrice, cacheReadPrice |-> cacheReadPrice]

\* Every model billed at the Opus 4.5 prices.
pricingAllOpus(model) == Prices(500, 2500, 625, 50)

\* The price tier of a model: Sonnet unless a pattern matches.
pricing(model) ==
    IF testI(model, <<"o", "p", "u", "s", "-", "4", "-", "5">>) \/ testI(model, <<"o", "p", "u", "s", "-", "4", ".", "5">>)
    THEN Prices(500, 2500, 625, 50)
    ELSE IF testI(model, <<"o", "p", "u", "s", "-", "4", "-", "1">>) \/ testI(model, <<"o", "p", "u", "s", "-", "4", ".", "1">>)
    THEN Prices(1500, 7500, 1875, 150)
    ELSE IF testI(model, <<"o", "p", "u", "s">>)
    THEN Prices(500, 2500, 625, 50)
    ELSE IF testI(model, <<"h", "a", "i", "k", "u", "-", "4", "-", "5">>) \/ testI(model, <<"h", "a", "i", "k", "u", "-", "4", ".", "5">>)
    THEN Prices(100, 500, 125, 10)
    ELSE IF testI(model, <<"h", "a", "i", "k", "u">>)
    THEN Prices(80, 400, 100, 8)
    ELSE Prices(300, 1500, 375, 30)


\* The returned record, from the four partial costs and the price of the
\* whole input.
costsFrom(inputCost, outputCost, cacheWriteCost, cacheReadCost, fullInputCost) ==
    [inputCost |-> inputCost, outputCost |-> outputCost,
     cacheWriteCost |-> cacheWriteCost, cacheReadCost |-> cacheReadCost,
     totalCost |-> inputCost + outputCost + cacheWriteCost + cacheReadCost,
     costWithoutCache |-> fullInputCost + outputCost,
     savings |-> (fullInputCost + outputCost)
                   - (inputCost + outputCost + cacheWriteCost + cacheReadCost)]

\* The input billed as input_tokens - cache_read, without the clamp at 0.
pricedWithoutClamp(usage, p) ==
    costsFrom((usage.input_tokens - usage.cache_read_input_tokens) * p.inputPrice,
              usage.output_tokens * p.outputPrice,
              usage.cache_creation_input_tokens * p.cacheWritePrice,
              usage.cache_read_input_tokens * p.cacheReadPrice,
              usage.input_tokens * p.inputPrice)

priced(usage, p) ==
    costsFrom(Max(0, usage.input_tokens - usage.cache_read_input_tokens) * p.inputPrice,
              usage.output_tokens * p.outputPrice,
              usage.cache_creation_input_tokens * p.cacheWritePrice,
              usage.cache_read_input_tokens * p.cacheReadPrice,
              usage.input_tokens * p.inputPrice)

calculateCosts(usage) == priced(usage, pricing(usage.model))

\* -------------------------------------------------------------- the panel
\* Math.round((a / b) * 100) for a >= 0 and b > 0: halves round up.
roundPercent(a, b) == (200 * a + b) \div (2 * b)

\* The hit rate of updatePanel: the share of the input tokens that came from
\* the cache, the input being the larger of the reported input and
\* read + write; 0 (shown as '--') while there are no tokens.
hitRate(ss) ==
    IF Max(ss.totalInputTokens, ss.totalCacheReadTokens + ss.totalCacheWriteTokens) > 0
    THEN roundPercent(ss.totalCacheReadTokens,
                      Max(ss.totalInputTokens,
                          ss.totalCacheReadTokens + ss.totalCacheWriteTokens))
    ELSE 0

\* warnsOnWaste firing one miss early.
warnsOnWasteEarly(st, consecutiveMisses) ==
    st.autoPauseOnWaste /\ consecutiveMisses + 1 >= st.wasteThreshold

\* Does the 'Warn on waste' test of processUsageData show the toast?
warnsOnWaste(st, consecutiveMisses) ==
    st.autoPauseOnWaste /\ consecutiveMisses >= st.wasteThreshold

\* The miss test without the exclusion of records that also read the cache.
isCacheMissEveryWrite(hadCacheRead, hadCacheWrite) == hadCacheWrite

\* if (hadCacheWrite && !hadCacheRead): the records that get an analysis.
isCacheMiss(hadCacheRead, hadCacheWrite) == hadCacheWrite /\ ~hadCacheRead

\* processUsageData past the model test.  The result is the new state and
\* whether the call threw; a call that throws in hashMessages keeps the
\* effects of the statements before it.
acceptRecord(g, usage, st, t) ==
    LET hadCacheRead == usage.cache_read_input_tokens > 0
        hadCacheWrite == usage.cache_creation_input_tokens > 0
        ss1 == countRecord(g.sessionStats, usage)
        cur == [g.currentRequest EXCEPT !.usage = Some(usage)]
        g1 == [g EXCEPT !.detectedClaudeUsage = TRUE, !.currentRequest = cur,
                        !.sessionStats = ss1]
    IN  IF hashMessagesThrows(cur.messages) THEN [g |-> g1, threw |-> TRUE]
        ELSE
        LET responseTime == IF cur.startTime # 0 THEN t - cur.startTime ELSE 0
            currentHashes == hashMessages(cur.messages)
            analysis == IF isCacheMiss(hadCacheRead, hadCacheWrite)
                        THEN Some(analyzeCacheMiss(g.previousRequest, cur.messages,
                                                   currentHashes, t))
                        ELSE Null
            entry == [timestamp |-> t, responseTimeMs |-> responseTime, usage |-> usage,
                      cacheHit |-> hadCacheRead, cacheWrite |-> hadCacheWrite,
                      costs |-> calculateCosts(usage), analysis |-> analysis,
                      messageHashes |-> currentHashes,
                      messageCount |-> IF IsNull(cur.messages) THEN 0
                                       ELSE Len(Val(cur.messages))]
            ss2 == [ss1 EXCEPT !.requestHistory = pushHistory(@, entry)]
            prev == IF IsNull(cur.messages) THEN g.previousRequest
                    ELSE snapshotOf(cur.messages, currentHashes, t)
        IN  [g |-> [g1 EXCEPT
                      !.sessionStats = ss2,
                      !.dailyStats = updateDailyStats(@, usage),
                      !.previousRequest = prev,
                      !.toasts = IF warnsOnWaste(st, ss2.consecutiveMisses)
                                 THEN @ + 1 ELSE @,
                      !.chat = saveUsageToMessage(@, usage)],
             threw |-> FALSE]

\* processUsageData without the model test.
processUsageDataUnfiltered(g, usage, st, t) == acceptRecord(g, usage, st, t)

\* processUsageData(usage) on state g with settings st at time t: a record
\* whose model is not a Claude model is dropped.
processUsageData(g, usage, st, t) ==
    IF ~isClaude(usage.model) THEN [g |-> g, threw |-> FALSE]
    ELSE acceptRecord(g, usage, st, t)

\* ----------------------------------------------------------- the workload
\* A request body: the stream flag and body.messages (null when missing).
Body(stream, messages) == [stream |-> stream, messages |-> messages]

Usage(p, cr, ct, cw) ==
    [present |-> TRUE, prompt_tokens |-> p, input_tokens |-> Absent,
     completion_tokens |-> 2, output_tokens |-> Absent,
     cache_read_input_tokens |-> cr, cached_tokens |-> ct,
     cache_creation_input_tokens |-> cw]

\* Answers in the provider's own format, one model of each price tier and
\* every combination of small token counts, of a million input tokens and of
\* a cache read of more than ten times the input:
\*   {"model":m,"usage":{"input_tokens":i,"output_tokens":o,
\*    "cache_read_input_tokens":r,"cache_creation_input_tokens":w}}
\* input_tokens of this format does not include the tokens read from the
\* cache, so cache_read_input_tokens may exceed it.
CostModels ==
    { <<"C", "l", "a", "u", "d", "e", "-", "O", "p", "u", "s", "-", "4", ".", "5">>,
      <<"c", "l", "a", "u", "d", "e", "-", "o", "p", "u", "s", "-", "4", "-", "1">>,
      <<"c", "l", "a", "u", "d", "e", "-", "3", "-", "o", "p", "u", "s">>,
      <<"c", "l", "a", "u", "d", "e", "-", "h", "a", "i", "k", "u", "-", "4", "-", "5">>,
      <<"c", "l", "a", "u", "d", "e", "-", "3", "-", "h", "a", "i", "k", "u">>,
      <<"c", "l", "a", "u", "d", "e", "-", "s", "o", "n", "n", "e", "t", "-", "4">> }
CostUsages ==
    [model : CostModels,
     input_tokens : 0..MaxTokens \cup {PerMillion},
     output_tokens : 0..MaxTokens,
     cache_read_input_tokens : 0..MaxTokens \cup {10 * MaxTokens + 1},
     cache_creation_input_tokens : 0..MaxTokens]

\* The name of such a payload is its text.
UsagePayloadId(u) == ToString(u)
UsagePayloadTable ==
    [k \in { UsagePayloadId(u) : u \in CostUsages } |->
        CHOOSE u \in CostUsages : UsagePayloadId(u) = k]
usagePayload(u) ==
    [type |-> "", model |-> u.model, id |-> "",
     usage |-> [NoUsage EXCEPT !.present = TRUE,
                               !.input_tokens = u.input_tokens,
                               !.output_tokens = u.output_tokens,
                               !.cache_read_input_tokens = u.cache_read_input_tokens,
                               !.cache_creation_input_tokens =
                                   u.cache_creation_input_tokens],
     message |-> NoMessage]

\* JSON payloads of the responses, by name.
PayloadIds == {"miss", "hit", "none", "gpt", "delta", "start", "or", "cached"}
Obj(k) ==
    IF k \in DOMAIN UsagePayloadTable THEN usagePayload(UsagePayloadTable[k]) ELSE
    CASE k = "delta" ->
           \* {"type":"message_delta","usage":{"input_tokens":10,"output_tokens":5,
           \*  "cache_creation_input_tokens":8}}
           [type |-> "message_delta", model |-> <<>>, id |-> "",
            usage |-> [NoUsage EXCEPT !.present = TRUE, !.input_tokens = 10,
                                      !.output_tokens = 5,
                                      !.cache_creation_input_tokens = 8],
            message |-> NoMessage]
      [] k = "start" ->
           \* {"type":"message_start","message":{"model":"claude-3","usage":
           \*  {"input_tokens":10,"cache_read_input_tokens":6}}}
           [type |-> "message_start", model |-> <<>>, id |-> "", usage |-> NoUsage,
            message |-> [present |-> TRUE,
                         model |-> <<"c", "l", "a", "u", "d", "e", "-", "3">>,
                         usage |-> [NoUsage EXCEPT !.present = TRUE, !.input_tokens = 10,
                                                   !.cache_read_input_tokens = 6]]]
      [] k = "or" ->
           \* An OpenRouter answer: {"id":"gen-1","model":"a/Claude","usage":
           \*  {"prompt_tokens":10,"completion_tokens":2}}
           [type |-> "", model |-> <<"a", "/", "C", "l", "a", "u", "d", "e">>,
            id |-> "gen-", usage |-> Usage(10, Absent, Absent, Absent),
            message |-> NoMessage]
      [] k = "miss" ->
           [type |-> "", model |-> <<"c", "l", "a", "u", "d", "e", "-", "3">>, id |-> "",
            usage |-> Usage(10, Absent, Absent, 8), message |-> NoMessage]
      [] k = "hit" ->
           [type |-> "", model |-> <<"a", "/", "C", "l", "a", "u", "d", "e">>, id |-> "",
            usage |-> Usage(10, 6, Absent, Absent), message |-> NoMessage]
      [] k = "none" ->
           [type |-> "", model |-> <<"c", "l", "a", "u", "d", "e", "-", "3">>, id |-> "",
            usage |-> Usage(10, Absent, Absent, Absent), message |-> NoMessage]
      [] k = "gpt" ->
           [type |-> "", model |-> <<"g", "p", "t", "-", "4">>, id |-> "",
            usage |-> Usage(10, Absent, Absent, 8), message |-> NoMessage]
      [] k = "cached" ->
           \* A prompt served from the cache alone:
           \* {"model":"claude-3","usage":{"prompt_tokens":0,"completion_tokens":2,
           \*  "cache_read_input_tokens":6}}
           [type |-> "", model |-> <<"c", "l", "a", "u", "d", "e", "-", "3">>, id |-> "",
            usage |-> Usage(0, 6, Absent, Absent), message |-> NoMessage]

\* The text of a JSON payload, in two pieces so that a chunk boundary can
\* fall inside it.
JsonText(k) == <<"{" \o k, k \o "}">>

\* JSON.parse(text): the object, or null where the code's try/catch swallows
\* the SyntaxError of an incomplete or foreign text.
JsonParse(text) ==
    IF \E k \in PayloadIds : text = JsonText(k)
    THEN Some(Obj(CHOOSE k \in PayloadIds : text = JsonText(k)))
    ELSE Null

parseUsageFromEvent(eventData) ==
    LET data == JsonParse(eventData)
    IN  IF IsNull(data) THEN Null ELSE usageFromData(Val(data))

NL == "NL"
DataPrefix == "data: "
Frame(k) == <<DataPrefix>> \o JsonText(k) \o <<NL, NL>>
DoneFrame == <<DataPrefix, "[DONE]", NL, NL>>

\* The bytes of an ASCII text, and TextDecoder.decode of them.
Bytes(text) == [i \in 1..Len(text) |-> [byte |-> text[i]]]
decode(value) == [i \in 1..Len(value) |-> value[i].byte]

\* Upstream response bodies: the chunks reader.read() yields, and whether the
\* read after the last chunk reports done or rejects.
StreamIds == 1..3

\* Response texts that reach the tap cut into chunks in every way: a
\* message_delta frame followed by a message_start frame, a usage frame
\* followed by the [DONE] frame, and a usage frame followed by a second one
\* that ends with the stream, without a blank line after it, and a frame
\* whose usage has a cache read and no input tokens.
TapTexts == 1..4
TapText(t) ==
    CASE t = 1 -> Frame("delta") \o Frame("start")
      [] t = 2 -> Frame("miss") \o DoneFrame
      [] t = 3 -> Frame("miss") \o <<DataPrefix>> \o JsonText("hit")
      [] t = 4 -> Frame("cached")

\* A cut of a text is a set of positions after which a chunk ends, written as
\* the number whose binary digits mark them.
CutAfter(mask, i) == (mask \div (2 ^ (i - 1))) % 2 = 1

RECURSIVE cutChunks(_, _, _, _)
cutChunks(text, mask, i, cur) ==
    IF i = Len(text) THEN << Bytes(Append(cur, text[i])) >>
    ELSE IF CutAfter(mask, i)
    THEN << Bytes(Append(cur, text[i])) >> \o cutChunks(text, mask, i + 1, <<>>)
    ELSE cutChunks(text, mask, i + 1, Append(cur, text[i]))

\* The body streams of the cut texts are numbered past StreamIds.
TapStreamId(t, mask) == 1024 * t + mask
TapCuts(t) ==
    { m \in 0..(2 ^ (Len(TapText(t)) - 1) - 1) :
        Cardinality({ i \in 1..(Len(TapText(t)) - 1) : CutAfter(m, i) }) < MaxChunks }
TapStreamIds == UNION { { TapStreamId(t, m) : m \in TapCuts(t) } : t \in TapTexts }

Stream(s) ==
    CASE s = 1 ->
           [chunks |-> << Bytes(<<DataPrefix, "{miss">>),
                          Bytes(<<"miss}", NL, NL>> \o DoneFrame) >>,
            fails |-> FALSE]
      [] s = 2 ->
           [chunks |-> << Bytes(Frame("miss") \o Frame("miss")) >>,
            fails |-> FALSE]
      [] s = 3 ->
           [chunks |-> << Bytes(Frame("gpt")), Bytes(Frame("none")) >>,
            fails |-> TRUE]
      [] OTHER ->
           [chunks |-> cutChunks(TapText(s \div 1024), s % 1024, 1, <<>>),
            fails |-> FALSE]

\* What the server answers: a body stream, or a JSON document.
Streamed(s) == [stream |-> s, json |-> ""]
Json(k) == [stream |-> 0, json |-> k]

\* The exchanges of the workload: a request body and the server's answer.
Exchanges ==
    { [body |-> Body(TRUE, Some(M1)), response |-> Streamed(1)],
      [body |-> Body(TRUE, Some(M1)), response |-> Streamed(2)],
      [body |-> Body(TRUE, Some(MBad)), response |-> Streamed(1)],
      [body |-> Body(TRUE, Null), response |-> Streamed(3)],
      [body |-> Body(FALSE, Some(M2)), response |-> Json("hit")] }

\* ---------------------------------------------------------- frame splitter
\* sseBuffer.split(/\n\n/): the segments between non-overlapping blank lines.
RECURSIVE splitEvents(_, _, _)
splitEvents(buf, i, cur) ==
    IF i > Len(buf) THEN <<cur>>
    ELSE IF buf[i] = NL /\ i < Len(buf) /\ buf[i + 1] = NL
    THEN <<cur>> \o splitEvents(buf, i + 2, <<>>)
    ELSE splitEvents(buf, i + 1, Append(cur, buf[i]))

\* event.split('\n')
RECURSIVE splitLines(_, _, _)
splitLines(ev, i, cur) ==
    IF i > Len(ev) THEN <<cur>>
    ELSE IF ev[i] = NL THEN <<cur>> \o splitLines(ev, i + 1, <<>>)
    ELSE splitLines(ev, i + 1, Append(cur, ev[i]))

\* The payloads of the data lines of one event that reach the extractor:
\* line.startsWith('data: '), slice(6).trim(), not empty and not '[DONE]'
\* (the payload texts carry no surrounding white space, so trim keeps them).
RECURSIVE linePayloads(_, _)
linePayloads(lines, i) ==
    IF i > Len(lines) THEN <<>>
    ELSE LET line == lines[i]
             eventData == IF Len(line) > 0 /\ line[1] = DataPrefix THEN Tail(line) ELSE <<>>
         IN  (IF Len(eventData) > 0 /\ eventData # <<"[DONE]">>
              THEN <<eventData>> ELSE <<>>)
             \o linePayloads(lines, i + 1)

RECURSIVE eventPayloads(_, _)
eventPayloads(events, i) ==
    IF i > Len(events) THEN <<>>
    ELSE linePayloads(splitLines(events[i], 1, <<>>), 1) \o eventPayloads(events, i + 1)

\* The body of the loop over the payloads of one chunk: a usage record with
\* input_tokens > 0 goes to processUsageData.  acc.seen lists the payloads
\* handed to parseUsageFromEvent, acc.calls the records handed to
\* processUsageData.
afterRecord(acc, eventData, usage, res) ==
    [g |-> res.g, threw |-> res.threw, usageFound |-> TRUE,
     seen |-> Append(acc.seen, eventData),
     calls |-> Append(acc.calls, usage)]

onUsage(acc, eventData, usage, st, t) ==
    IF ~IsNull(usage) /\ Val(usage).input_tokens > 0
    THEN afterRecord(acc, eventData, Val(usage),
                     processUsageData(acc.g, Val(usage), st, t))
    ELSE [acc EXCEPT !.seen = Append(@, eventData)]

onPayload(acc, eventData, st, t) ==
    onUsage(acc, eventData, parseUsageFromEvent(eventData), st, t)

\* The loop itself; an exception ends it.
RECURSIVE runPayloads(_, _, _, _, _)
runPayloads(acc, payloads, i, st, t) ==
    IF i > Len(payloads) \/ acc.threw THEN acc
    ELSE runPayloads(onPayload(acc, payloads[i], st, t), payloads, i + 1, st, t)

\* The turn once the loop over the payloads has ended with run: the chunk was
\* enqueued first, sseBuffer keeps the incomplete last event, and an
\* exception of the loop errors the downstream stream.
tapTurn(rq, value, sseBuffer, run) ==
    [rq |-> [rq EXCEPT !.down = Append(@, value),
                       !.pos = @ + 1,
                       !.sseBuffer = sseBuffer,
                       !.usageFound = run.usageFound,
                       !.dstate = IF run.threw THEN "errored" ELSE @],
     g |-> IF run.threw
           THEN [run.g EXCEPT !.currentRequest.active = FALSE]
           ELSE run.g,
     seen |-> run.seen,
     calls |-> run.calls]

\* The turn once the buffer is split into events: the last one is kept, the
\* payloads of the others go through the loop.
tapEvents(rq, value, events, g, st, t) ==
    tapTurn(rq, value, events[Len(events)],
            runPayloads([g |-> g, threw |-> FALSE, usageFound |-> rq.usageFound,
                         seen |-> <<>>, calls |-> <<>>],
                        eventPayloads(SubSeq(events, 1, Len(events) - 1), 1), 1, st, t))

\* tapChunk that parses every chunk on its own, without the buffer.
tapChunkUnbuffered(rq, value, g, st, t) ==
    LET events == splitEvents(decode(value), 1, <<>>)
        complete == SubSeq(events, 1, Len(events) - 1)
        run == runPayloads([g |-> g, threw |-> FALSE, usageFound |-> rq.usageFound,
                            seen |-> <<>>, calls |-> <<>>],
                           eventPayloads(complete, 1), 1, st, t)
    IN  [rq |-> [rq EXCEPT !.down = Append(@, value),
                           !.pos = @ + 1,
                           !.sseBuffer = <<>>,
                           !.usageFound = run.usageFound,
                           !.dstate = IF run.threw THEN "errored" ELSE @],
         g |-> IF run.threw
               THEN [run.g EXCEPT !.currentRequest.active = FALSE]
               ELSE run.g,
         seen |-> run.seen,
         calls |-> run.calls]

\* tapChunk with the enqueue moved behind the parse loop.
tapChunkParseFirst(rq, value, g, st, t) ==
    LET events == splitEvents(rq.sseBuffer \o decode(value), 1, <<>>)
        complete == SubSeq(events, 1, Len(events) - 1)
        run == runPayloads([g |-> g, threw |-> FALSE, usageFound |-> rq.usageFound,
                            seen |-> <<>>, calls |-> <<>>],
                           eventPayloads(complete, 1), 1, st, t)
    IN  [rq |-> [rq EXCEPT !.down = IF run.threw THEN @ ELSE Append(@, value),
                           !.pos = @ + 1,
                           !.sseBuffer = events[Len(events)],
                           !.usageFound = run.usageFound,
                           !.dstate = IF run.threw THEN "errored" ELSE @],
         g |-> IF run.threw
               THEN [run.g EXCEPT !.currentRequest.active = FALSE]
               ELSE run.g,
         seen |-> run.seen,
         calls |-> run.calls]

\* One turn of the read loop with a chunk (value) for the tap rq: enqueue,
\* decode, split, extract.  Result: the tap, the module state, the calls made.
tapChunk(rq, value, g, st, t) ==
    tapEvents(rq, value, splitEvents(rq.sseBuffer \o decode(value), 1, <<>>), g, st, t)

\* ------------------------------------------------------------- settings
\* parseInt(text): optional sign, then the leading decimal digits; NaN when
\* there is none.
DigitVal(ch) ==
    CASE ch = "0" -> 0 [] ch = "1" -> 1 [] ch = "2" -> 2 [] ch = "3" -> 3
      [] ch = "4" -> 4 [] ch = "5" -> 5 [] ch = "6" -> 6 [] ch = "7" -> 7
      [] ch = "8" -> 8 [] ch = "9" -> 9 [] OTHER -> -1

RECURSIVE digitsValue(_, _, _)
digitsValue(text, i, acc) ==
    IF i > Len(text) \/ DigitVal(text[i]) < 0 THEN acc
    ELSE digitsValue(text, i + 1, 10 * acc + DigitVal(text[i]))

parseInt(text) ==
    LET signed == Len(text) > 0 /\ text[1] \in {"-", "+"}
        first == IF signed THEN 2 ELSE 1
        nan == first > Len(text) \/ DigitVal(text[first]) < 0
        magnitude == digitsValue(text, first, 0)
    IN  [nan |-> nan,
         value |-> IF nan THEN 0
                   ELSE IF signed /\ text[1] = "-" THEN 0 - magnitude ELSE magnitude]

\* parseInt(this.value) || 3
thresholdFromField(text) ==
    LET n == parseInt(text)
    IN  IF n.nan \/ n.value = 0 THEN 3 ELSE n.value

\* Texts typed into the threshold field.
ThresholdInputs == { <<"1">>, <<"x">> }

\* The value of the number input at a 'change' event: empty (what the input
\* reports for text that is no number) or a number as typed, with an optional
\* minus sign and up to MaxDigits digits; min="1" max="10" of the element
\* mark a value as invalid and leave it as typed.
FieldDigits == {"0", "1", "3", "7"}

RECURSIVE DigitTexts(_)
DigitTexts(n) ==
    IF n = 0 THEN {<<>>}
    ELSE LET shorter == DigitTexts(n - 1)
         IN  shorter \cup { Append(t, d) : t \in { u \in shorter : Len(u) = n - 1 },
                                            d \in FieldDigits }

FieldTexts ==
    LET digits == DigitTexts(MaxDigits) \ {<<>>}
    IN  {<<>>} \cup digits \cup { <<"-">> \o t : t \in digits }
               \cup { <<"1", ".", "5">>, <<"0", ".", "5">> }

\* ---------------------------------------------------------------- requests
ReqIds == 1..MaxRequests

\* lookup is the way the remote generation-metadata lookup of the call ended
\* ("" while there was none), genStats what it returned.
IdleReq ==
    [phase |-> "idle", isStreaming |-> FALSE, requestMessages |-> Null, startTime |-> 0,
     response |-> Json(""), pos |-> 0, sseBuffer |-> <<>>, usageFound |-> FALSE,
     down |-> <<>>, dstate |-> "none", lookup |-> "", genStats |-> Null]

\* defaultSettings, as far as the model reads them.
defaultSettings ==
    [autoPauseOnWaste |-> TRUE, wasteThreshold |-> DefaultWasteThreshold,
     openrouterApiKey |-> ""]

\* Chat histories of the host at start-up.
AssistantMsg == [is_user |-> FALSE, extra |-> Null]
UserMsg == [is_user |-> TRUE, extra |-> Null]
Chats == { <<UserMsg, AssistantMsg>> }

Init ==
    /\ sessionStats = EmptyStats
    /\ currentRequest = [active |-> FALSE, startTime |-> 0, usage |-> Null, messages |-> Null]
    /\ previousRequest = NoPrevious
    /\ detectedClaudeUsage = FALSE
    /\ dailyStats = [requests |-> 0, inputTokens |-> 0, outputTokens |-> 0,
                     cacheReadTokens |-> 0, cacheWriteTokens |-> 0]
    /\ chat \in Chats
    /\ toasts = 0
    /\ settings = defaultSettings
    /\ now = T0
    /\ reqs = [r \in ReqIds |-> IdleReq]
    /\ nextReq = 1

\* window.fetch(url, options) for a chat-completion request, up to the await
\* of the original fetch.
Dispatch(r, x) ==
    /\ r = nextReq
    /\ r <= MaxRequests
    /\ reqs' = [reqs EXCEPT ![r] =
                  [IdleReq EXCEPT !.phase = "fetching", !.isStreaming = x.body.stream,
                                  !.requestMessages = x.body.messages, !.startTime = now,
                                  !.response = x.response]]
    /\ currentRequest' = [active |-> TRUE, startTime |-> now, usage |-> Null,
                          messages |-> x.body.messages]
    /\ nextReq' = nextReq + 1
    /\ UNCHANGED <<sessionStats, previousRequest, detectedClaudeUsage, dailyStats, chat,
                   toasts, settings, now>>

\* The usage record the non-streaming branch builds from the response JSON.
nonStreamingUsage(data) ==
    [model |-> data.model,
     input_tokens |-> Or(data.usage.prompt_tokens, Or(data.usage.input_tokens, 0)),
     output_tokens |-> Or(data.usage.completion_tokens, Or(data.usage.output_tokens, 0)),
     cache_read_input_tokens |-> Or(data.usage.cache_read_input_tokens, 0),
     cache_creation_input_tokens |-> Or(data.usage.cache_creation_input_tokens, 0)]

\* The test that sends the non-streaming branch to the remote lookup: an
\* OpenRouter answer (id starting with "gen-") of a Claude model without
\* cache counters.
needsLookup(data) ==
    /\ data.id = "gen-"
    /\ Or(data.usage.cache_read_input_tokens, 0) = 0
    /\ Or(data.usage.cache_creation_input_tokens, 0) = 0
    /\ isClaude(data.model)

\* The ways the generation endpoint can answer, and the statistics of a
\* successful answer: a cache read, a cache write, no cache activity
\* (usage_cache is a cost; only its sign is read).
LookupStats ==
    { [native_tokens_cached |-> 6, usage_cache |-> 0, native_tokens_prompt |-> 10],
      [native_tokens_cached |-> 0, usage_cache |-> 1, native_tokens_prompt |-> 10],
      [native_tokens_cached |-> Absent, usage_cache |-> Absent,
       native_tokens_prompt |-> Absent] }
LookupOutcomes ==
    { [kind |-> k, stats |-> Null] : k \in {"status", "network", "parse", "nodata"} }
    \cup { [kind |-> "data", stats |-> Some(gs)] : gs \in LookupStats }

\* How fetchOpenRouterGenerationStats ends for an endpoint answer: without a
\* key no request is made.
lookupKind(st, outcome) ==
    IF st.openrouterApiKey = "" THEN "no key" ELSE outcome.kind

\* fetchOpenRouterGenerationStats(generationId): null without a key, for a
\* status that is not ok and for an exception of fetch or of json();
\* otherwise genData?.data.
fetchOpenRouterGenerationStats(st, outcome) ==
    IF lookupKind(st, outcome) = "data" THEN outcome.stats ELSE Null

\* The record of the non-streaming branch that is dropped when the lookup
\* returned nothing.
lookedUpUsageOnlyWithStats(data, genStats) ==
    IF ~data.usage.present \/ IsNull(genStats) THEN Null
    ELSE Some([nonStreamingUsage(data) EXCEPT
                 !.cache_read_input_tokens = Or(Val(genStats).native_tokens_cached, 0)])

\* The record the non-streaming branch builds after the lookup (null when
\* data.usage is missing): cacheRead and cacheWrite were 0 before it.
lookedUpUsage(data, genStats) ==
    IF ~data.usage.present THEN Null
    ELSE IF IsNull(genStats)
    THEN Some([nonStreamingUsage(data) EXCEPT !.cache_read_input_tokens = 0,
                                              !.cache_creation_input_tokens = 0])
    ELSE Some([nonStreamingUsage(data) EXCEPT
                 !.cache_read_input_tokens = Or(Val(genStats).native_tokens_cached, 0),
                 !.cache_creation_input_tokens =
                     IF Val(genStats).usage_cache > 0
                        /\ Or(Val(genStats).native_tokens_cached, 0) = 0
                     THEN Or(Val(genStats).native_tokens_prompt, 0) ELSE 0])

\* processUsageData on the record, if there is one.
processIfUsage(g, usage, st, t) ==
    IF IsNull(usage) THEN [g |-> g, threw |-> FALSE]
    ELSE processUsageData(g, Val(usage), st, t)

\* The non-streaming branch once cloned.json() has resolved with data that
\* needs the lookup: fetchOpenRouterGenerationStats is awaited.
LookupStart(r) ==
    /\ reqs[r].phase = "fetching"
    /\ ~reqs[r].isStreaming
    /\ needsLookup(Obj(reqs[r].response.json))
    /\ reqs' = [reqs EXCEPT ![r].phase = "lookup"]
    /\ UNCHANGED <<globals, settings, now, nextReq>>

\* fetchOpenRouterGenerationStats has resolved: the record is built and
\* processed, and the response is returned to the host.
LookupDone(r, outcome) ==
    /\ reqs[r].phase = "lookup"
    /\ SetG(processIfUsage(G, lookedUpUsage(Obj(reqs[r].response.json),
                                            fetchOpenRouterGenerationStats(settings,
                                                                           outcome)),
                           settings, now).g)
    /\ reqs' = [reqs EXCEPT ![r].phase = "done",
                            ![r].lookup = lookupKind(settings, outcome),
                            ![r].genStats = fetchOpenRouterGenerationStats(settings,
                                                                          outcome)]
    /\ UNCHANGED <<settings, now, nextReq>>

\* The non-streaming branch once cloned.json() has resolved with data that
\* needs no lookup: the try block swallows an exception of processUsageData.
NonStreamingResponse(r) ==
    /\ reqs[r].phase = "fetching"
    /\ ~reqs[r].isStreaming
    /\ ~needsLookup(Obj(reqs[r].response.json))
    /\ LET data == Obj(reqs[r].response.json)
           res == IF data.usage.present
                  THEN processUsageData(G, nonStreamingUsage(data), settings, now)
                  ELSE [g |-> G, threw |-> FALSE]
       IN  SetG(res.g)
    /\ reqs' = [reqs EXCEPT ![r].phase = "done"]
    /\ UNCHANGED <<settings, now, nextReq>>

\* The streaming branch once the original fetch has resolved with a body:
\* the reader is taken and the intercepted stream is returned to the host.
StreamingResponse(r) ==
    /\ reqs[r].phase = "fetching"
    /\ reqs[r].isStreaming
    /\ reqs[r].response.stream # 0
    /\ reqs' = [reqs EXCEPT ![r].phase = "streaming", ![r].dstate = "readable"]
    /\ UNCHANGED <<globals, settings, now, nextReq>>

\* The streaming branch when the response has no body: `if (!originalBody)`
\* returns the response as it is.
NoBodyResponse(r) ==
    /\ reqs[r].phase = "fetching"
    /\ reqs[r].isStreaming
    /\ reqs[r].response.stream = 0
    /\ reqs' = [reqs EXCEPT ![r].phase = "done"]
    /\ UNCHANGED <<globals, settings, now, nextReq>>

\* The original fetch rejects: the await throws and the interceptor's promise
\* rejects with it, no statement after the await being run.
FetchRejects(r) ==
    /\ reqs[r].phase = "fetching"
    /\ reqs' = [reqs EXCEPT ![r].phase = "failed"]
    /\ UNCHANGED <<globals, settings, now, nextReq>>

Reading(r) == reqs[r].phase = "streaming" /\ reqs[r].dstate = "readable"
Upstream(r) == Stream(reqs[r].response.stream)

\* reader.read() resolves with a chunk.
ReadChunk(r) ==
    /\ Reading(r)
    /\ reqs[r].pos < Len(Upstream(r).chunks)
    /\ LET res == tapChunk(reqs[r], Upstream(r).chunks[reqs[r].pos + 1], G, settings, now)
       IN  /\ reqs' = [reqs EXCEPT ![r] = res.rq]
           /\ SetG(res.g)
    /\ UNCHANGED <<settings, now, nextReq>>

\* reader.read() resolves with done: controller.close().
ReadDone(r) ==
    /\ Reading(r)
    /\ reqs[r].pos = Len(Upstream(r).chunks)
    /\ ~Upstream(r).fails
    /\ reqs' = [reqs EXCEPT ![r].dstate = "closed", ![r].phase = "done"]
    /\ currentRequest' = [currentRequest EXCEPT !.active = FALSE]
    /\ UNCHANGED <<sessionStats, previousRequest, detectedClaudeUsage, dailyStats, chat,
                   toasts, settings, now, nextReq>>

\* ReadError that ends the stream normally and leaves the request active.
ReadErrorSwallowed(r) ==
    /\ Reading(r)
    /\ reqs[r].pos = Len(Upstream(r).chunks)
    /\ Upstream(r).fails
    /\ reqs' = [reqs EXCEPT ![r].dstate = "closed", ![r].phase = "done"]
    /\ UNCHANGED <<globals, settings, now, nextReq>>

\* reader.read() rejects: controller.error(error).
ReadError(r) ==
    /\ Reading(r)
    /\ reqs[r].pos = Len(Upstream(r).chunks)
    /\ Upstream(r).fails
    /\ reqs' = [reqs EXCEPT ![r].dstate = "errored"]
    /\ currentRequest' = [currentRequest EXCEPT !.active = FALSE]
    /\ UNCHANGED <<sessionStats, previousRequest, detectedClaudeUsage, dailyStats, chat,
                   toasts, settings, now, nextReq>>

\* The host cancels the intercepted stream: reader.cancel().
Cancel(r) ==
    /\ Reading(r)
    /\ reqs' = [reqs EXCEPT ![r].dstate = "canceled"]
    /\ currentRequest' = [currentRequest EXCEPT !.active = FALSE]
    /\ UNCHANGED <<sessionStats, previousRequest, detectedClaudeUsage, dailyStats, chat,
                   toasts, settings, now, nextReq>>

\* Time passes.
Tick ==
    /\ now < T0 + MaxTicks * TickMs
    /\ now' = now + TickMs
    /\ UNCHANGED <<globals, settings, reqs, nextReq>>

\* 'change' of the waste-threshold field.
SetWasteThreshold(text) ==
    /\ settings' = [settings EXCEPT !.wasteThreshold = thresholdFromField(text)]
    /\ UNCHANGED <<globals, now, reqs, nextReq>>

\* 'change' of the warn-on-waste checkbox.
ToggleAutoWarn ==
    /\ settings' = [settings EXCEPT !.autoPauseOnWaste = ~@]
    /\ UNCHANGED <<globals, now, reqs, nextReq>>

\* A reset that also forgets the previous-request snapshot.
ResetStatsForgetsPrevious ==
    /\ sessionStats' = EmptyStats
    /\ detectedClaudeUsage' = FALSE
    /\ previousRequest' = NoPrevious
    /\ UNCHANGED <<currentRequest, dailyStats, chat, toasts, settings, now, reqs, nextReq>>

\* A reset that zeroes the counters and keeps the history.
ResetStatsKeepsHistory ==
    /\ sessionStats' = [EmptyStats EXCEPT !.requestHistory = sessionStats.requestHistory]
    /\ detectedClaudeUsage' = FALSE
    /\ UNCHANGED <<currentRequest, previousRequest, dailyStats, chat, toasts, settings,
                   now, reqs, nextReq>>

\* Click on the reset button of the panel.
ResetStats ==
    /\ sessionStats' = EmptyStats
    /\ detectedClaudeUsage' = FALSE
    /\ UNCHANGED <<currentRequest, previousRequest, dailyStats, chat, toasts, settings,
                   now, reqs, nextReq>>

Next ==
    \/ \E r \in ReqIds, x \in Exchanges : Dispatch(r, x)
    \/ \E r \in ReqIds : NonStreamingResponse(r)
    \/ \E r \in ReqIds : StreamingResponse(r)
    \/ \E r \in ReqIds : ReadChunk(r)
    \/ \E r \in ReqIds : ReadDone(r)
    \/ \E r \in ReqIds : ReadError(r)
    \/ \E r \in ReqIds : Cancel(r)
    \/ Tick
    \/ \E text \in ThresholdInputs : SetWasteThreshold(text)
    \/ ToggleAutoWarn
    \/ ResetStats

Spec == Init /\ [][Next]_vars

\* ------------------------------------------- the ways a request can end
\* The requests of the workload and a streaming request whose response has
\* no body; every request may also fail in the original fetch.
NoBody == Json("")
FlightExchanges ==
    Exchanges \cup { [body |-> Body(TRUE, Some(M1)), response |-> NoBody] }

FlightNext ==
    \/ \E r \in ReqIds, x \in FlightExchanges : Dispatch(r, x)
    \/ \E r \in ReqIds : FetchRejects(r)
    \/ \E r \in ReqIds : NonStreamingResponse(r)
    \/ \E r \in ReqIds : StreamingResponse(r)
    \/ \E r \in ReqIds : NoBodyResponse(r)
    \/ \E r \in ReqIds : ReadChunk(r)
    \/ \E r \in ReqIds : ReadDone(r)
    \/ \E r \in ReqIds : ReadError(r)
    \/ \E r \in ReqIds : Cancel(r)

FlightSpec == Init /\ [][FlightNext]_vars

\* ------------------------------------------------- the settings on their own
\* The settings drawer alone: any number text in the threshold field, and the
\* warn-on-waste checkbox.
SettingsNext ==
    \/ \E text \in FieldTexts : SetWasteThreshold(text)
    \/ ToggleAutoWarn

SettingsSpec == Init /\ [][SettingsNext]_vars

\* --------------------------------------------------- the cost model's inputs
\* A non-streaming request awaiting an answer whose usage is any of CostUsages.
CostInit ==
    \E u \in CostUsages :
        /\ sessionStats = EmptyStats
        /\ currentRequest = [active |-> TRUE, startTime |-> T0, usage |-> Null,
                             messages |-> Some(M1)]
        /\ previousRequest = NoPrevious
        /\ detectedClaudeUsage = FALSE
        /\ dailyStats = [requests |-> 0, inputTokens |-> 0, outputTokens |-> 0,
                         cacheReadTokens |-> 0, cacheWriteTokens |-> 0]
        /\ chat = <<UserMsg, AssistantMsg>>
        /\ toasts = 0
        /\ settings = defaultSettings
        /\ now = T0
        /\ nextReq = 2
        /\ reqs = [r \in ReqIds |->
                     IF r = 1
                     THEN [IdleReq EXCEPT !.phase = "fetching",
                                          !.requestMessages = Some(M1),
                                          !.startTime = T0,
                                          !.response = Json(UsagePayloadId(u))]
                     ELSE IdleReq]

CostNext == \E r \in ReqIds : NonStreamingResponse(r)

CostSpec == CostInit /\ [][CostNext]_vars

\* ------------------------------------------------------- the tap on its own
\* One streaming request whose response has just resolved: the state after
\* Dispatch and StreamingResponse, for every cut of the response texts, with
\* the host chat ending in an assistant message, ending in a user message, or
\* empty.
TapChats == { <<UserMsg, AssistantMsg>>, <<AssistantMsg, UserMsg>>, <<>> }

TapInit ==
    /\ sessionStats = EmptyStats
    /\ previousRequest = NoPrevious
    /\ detectedClaudeUsage = FALSE
    /\ dailyStats = [requests |-> 0, inputTokens |-> 0, outputTokens |-> 0,
                     cacheReadTokens |-> 0, cacheWriteTokens |-> 0]
    /\ chat \in TapChats
    /\ toasts = 0
    /\ settings = defaultSettings
    /\ now = T0
    /\ nextReq = 2
    /\ \E messages \in {Some(M1), Some(MBad)}, s \in TapStreamIds :
          /\ currentRequest = [active |-> TRUE, startTime |-> T0, usage |-> Null,
                               messages |-> messages]
          /\ reqs = [r \in ReqIds |->
                       IF r = 1
                       THEN [IdleReq EXCEPT !.phase = "streaming", !.isStreaming = TRUE,
                                            !.requestMessages = messages,
                                            !.startTime = T0, !.response = Streamed(s),
                                            !.dstate = "readable"]
                       ELSE IdleReq]

TapNext ==
    \/ \E r \in ReqIds : ReadChunk(r)
    \/ \E r \in ReqIds : ReadDone(r)
    \/ \E r \in ReqIds : Cancel(r)

TapSpec == TapInit /\ [][TapNext]_vars

\* ------------------------------------------------- the diagnoser on its own
\* Chats of the diagnoser's workload: a system prompt followed by alternating
\* user and assistant turns, the same with one more user turn appended, the
\* longest one with one message replaced by a message carrying markers
\* (first, last but one or last), the empty chat, and a chat of more than
\* fifteen messages with and without a change of its fourth message (a
\* divergence at index 3 below a fifth of the length).
ChatMsg(i) == IF i = 1 THEN SysA ELSE IF i % 2 = 0 THEN UserHi ELSE Asst
ChatOf(n) == [i \in 1..n |-> ChatMsg(i)]
DiagPositions == {1, MaxMessages - 1, MaxMessages}
LongChat == 3 * MaxMessages + 1
DiagChats ==
    { ChatOf(n) : n \in 0..MaxMessages }
    \cup { Append(ChatOf(n), UserGo) : n \in 0..MaxMessages }
    \cup { [ChatOf(MaxMessages) EXCEPT ![p] = m] : p \in DiagPositions, m \in MarkerMsgs }
    \cup { ChatOf(LongChat), [ChatOf(LongChat) EXCEPT ![4] = UserGo] }
    \cup { <<SysA, m>> : m \in DiffMsgs \ {SysACached} }
    \cup { <<SysACached, UserHi>> }

\* Time between the previous record and the current one: the TTL itself, one
\* millisecond more, and a clock step.
DiagElapsed == {TtlMs, TtlMs + 1, TickMs}

\* A non-streaming request awaiting its response, either the first one of
\* the session or one sent after an earlier request whose write-miss record
\* was processed at T0.
DiagInit ==
    \E prev \in {Null} \cup { Some(c) : c \in DiagChats }, cur \in DiagChats,
       elapsed \in DiagElapsed :
        LET st == defaultSettings
            g0 == [sessionStats |-> EmptyStats,
                   currentRequest |-> [active |-> TRUE, startTime |-> T0, usage |-> Null,
                                       messages |-> prev],
                   previousRequest |-> NoPrevious,
                   detectedClaudeUsage |-> FALSE,
                   dailyStats |-> [requests |-> 0, inputTokens |-> 0, outputTokens |-> 0,
                                   cacheReadTokens |-> 0, cacheWriteTokens |-> 0],
                   chat |-> <<UserMsg, AssistantMsg>>,
                   toasts |-> 0]
            g1 == IF IsNull(prev) THEN g0
                  ELSE processUsageData(g0, nonStreamingUsage(Obj("miss")), st, T0).g
            first == IF IsNull(prev) THEN 0 ELSE 1
            fetching == [IdleReq EXCEPT !.phase = "fetching",
                                        !.requestMessages = Some(cur),
                                        !.startTime = T0 + elapsed,
                                        !.response = Json("miss")]
            done == [IdleReq EXCEPT !.phase = "done", !.requestMessages = prev,
                                    !.startTime = T0, !.response = Json("miss")]
        IN  /\ sessionStats = g1.sessionStats
            /\ currentRequest = [active |-> TRUE, startTime |-> T0 + elapsed,
                                 usage |-> Null, messages |-> Some(cur)]
            /\ previousRequest = g1.previousRequest
            /\ detectedClaudeUsage = g1.detectedClaudeUsage
            /\ dailyStats = g1.dailyStats
            /\ chat = g1.chat
            /\ toasts = g1.toasts
            /\ settings = st
            /\ now = T0 + elapsed
            /\ nextReq = first + 2
            /\ reqs = [r \in ReqIds |->
                         IF r = first + 1 THEN fetching
                         ELSE IF r <= first THEN done ELSE IdleReq]

DiagNext == \E r \in ReqIds : NonStreamingResponse(r)

DiagSpec == DiagInit /\ [][DiagNext]_vars

\* ---------------------------------------------------- the lookup on its own
\* One non-streaming request awaiting its response, with or without an
\* OpenRouter key in the settings.  (The workload of Spec has no OpenRouter
\* answer, so the two lookup actions are never enabled there.)
LookupKeys == {"", "sk-or"}
LookupPayloads == {"or", "miss", "gpt"}

LookupInit ==
    /\ sessionStats = EmptyStats
    /\ previousRequest = NoPrevious
    /\ detectedClaudeUsage = FALSE
    /\ dailyStats = [requests |-> 0, inputTokens |-> 0, outputTokens |-> 0,
                     cacheReadTokens |-> 0, cacheWriteTokens |-> 0]
    /\ chat \in TapChats
    /\ toasts = 0
    /\ \E key \in LookupKeys :
          settings = [defaultSettings EXCEPT !.openrouterApiKey = key]
    /\ now = T0
    /\ nextReq = 2
    /\ \E messages \in {Null, Some(M1), Some(M2), Some(MBad)}, k \in LookupPayloads :
          /\ currentRequest = [active |-> TRUE, startTime |-> T0, usage |-> Null,
                               messages |-> messages]
          /\ reqs = [r \in ReqIds |->
                       IF r = 1
                       THEN [IdleReq EXCEPT !.phase = "fetching",
                                            !.requestMessages = messages,
                                            !.startTime = T0, !.response = Json(k)]
                       ELSE IdleReq]

LookupNext ==
    \/ \E r \in ReqIds : NonStreamingResponse(r)
    \/ \E r \in ReqIds : LookupStart(r)
    \/ \E r \in ReqIds, outcome \in LookupOutcomes : LookupDone(r, outcome)

LookupSpec == LookupInit /\ [][LookupNext]_vars

\* =================================================================== claims
\* The handler step of request r that hands records to processUsageData: the
\* non-streaming branch, or one turn of the read loop.
Processes(r) ==
    \/ reqs[r].phase = "fetching" /\ ~reqs[r].isStreaming /\ reqs'[r].phase = "done"
    \/ reqs'[r].pos = reqs[r].pos + 1

\* The records that step hands to processUsageData, in order.
CallsOf(r) ==
    IF reqs[r].phase = "fetching"
    THEN (IF Obj(reqs[r].response.json).usage.present
          THEN <<nonStreamingUsage(Obj(reqs[r].response.json))>> ELSE <<>>)
    ELSE tapChunk(reqs[r], Upstream(r).chunks[reqs[r].pos + 1], G, settings, now).calls

\* Those of them that are accepted (Claude) records.
RECURSIVE Accepted(_, _)
Accepted(calls, i) ==
    IF i > Len(calls) THEN <<>>
    ELSE (IF isClaude(calls[i].model) THEN <<calls[i]>> ELSE <<>>) \o Accepted(calls, i + 1)

AcceptedOf(r) == Accepted(CallsOf(r), 1)

Counters == <<sessionStats.cacheHits, sessionStats.cacheMisses, sessionStats.consecutiveMisses>>

\* The classification rule of the claim, applied to one record.
ClassifyOne(c, u) ==
    IF u.cache_read_input_tokens > 0 THEN <<c[1] + 1, c[2], 0>>
    ELSE IF u.cache_creation_input_tokens > 0 THEN <<c[1], c[2] + 1, c[3] + 1>>
    ELSE c

RECURSIVE Classified(_, _, _)
Classified(c, recs, i) ==
    IF i > Len(recs) THEN c ELSE Classified(ClassifyOne(c, recs[i]), recs, i + 1)

\* consecutiveMisses after each of the records recs, starting from cm.
RECURSIVE StreakAfter(_, _, _)
StreakAfter(cm, recs, i) ==
    IF i > Len(recs) THEN <<>>
    ELSE LET next == ClassifyOne(<<0, 0, cm>>, recs[i])[3]
         IN  <<next>> \o StreakAfter(next, recs, i + 1)

\* C1: the chunks enqueued downstream are exactly the chunks read from
\* upstream so far, in order and unmodified: every chunk read has been
\* enqueued (also when parsing it raised), and nothing else has.
C1_PassThrough ==
    \A r \in ReqIds :
        reqs[r].isStreaming /\ reqs[r].phase \in {"streaming", "done"} =>
            /\ reqs[r].pos <= Len(Upstream(r).chunks)
            /\ reqs[r].down = SubSeq(Upstream(r).chunks, 1, reqs[r].pos)

\* A tap whose second chunk raised during processing and is enqueued all the same.
C1_Witness ==
    \E r \in ReqIds :
        /\ reqs[r].dstate = "errored"
        /\ ~Upstream(r).fails
        /\ Len(reqs[r].down) = 2

\* C2: an exception raised while a record is processed never breaks the
\* response stream: the downstream stream is errored only when the upstream
\* read itself failed.
C2_StreamSurvivesException ==
    \A r \in ReqIds :
        reqs[r].dstate = "errored" =>
            Upstream(r).fails /\ reqs[r].pos = Len(Upstream(r).chunks)

\* C3: every accepted record is classified by the rule (read > 0: hit and
\* streak reset; read = 0 and write > 0: miss and streak + 1; neither: no
\* change), and no other step raises a counter.
C3_Classification ==
    [][ /\ \A r \in ReqIds :
              Processes(r) => Counters' = Classified(Counters, AcceptedOf(r), 1)
        /\ (\A r \in ReqIds : ~Processes(r)) =>
              (Counters' = Counters \/ Counters' = <<0, 0, 0>>) ]_vars

\* A hit after a miss has reset the streak.
C3_Witness ==
    /\ sessionStats.cacheHits >= 1
    /\ sessionStats.cacheMisses >= 1
    /\ sessionStats.consecutiveMisses = 0

\* C4: with the warning enabled and threshold T >= 1, every record that
\* raises consecutiveMisses to T shows the warning, and a step none of whose
\* records leaves consecutiveMisses at T or above shows none.
C4_WarnsAtThreshold ==
    [][ \A r \in ReqIds :
          (Processes(r) /\ settings.autoPauseOnWaste /\ settings.wasteThreshold >= 1) =>
            LET T == settings.wasteThreshold
                after == StreakAfter(sessionStats.consecutiveMisses, AcceptedOf(r), 1)
                before == <<sessionStats.consecutiveMisses>> \o after
                raised == {i \in 1..Len(after) : after[i] = T /\ before[i] = T - 1}
            IN  /\ toasts' - toasts >= Cardinality(raised)
                /\ (\A i \in 1..Len(after) : after[i] < T) => toasts' = toasts ]_vars

\* C5 as claimed: one warning per threshold crossing, so the records of one
\* handler step that contain no hit show at most one warning.
C5_OncePerCrossing ==
    [][ \A r \in ReqIds :
          (Processes(r) /\ \A i \in 1..Len(AcceptedOf(r)) :
                              AcceptedOf(r)[i].cache_read_input_tokens = 0) =>
            toasts' <= toasts + 1 ]_vars

\* C5 as amended: a record shows the warning only if the warning is enabled
\* and consecutiveMisses is at or above the threshold after it; every such
\* record may show it again.
C5_WarnsOnlyAtOrAboveThreshold ==
    [][ /\ \A r \in ReqIds :
              Processes(r) =>
                LET after == StreakAfter(sessionStats.consecutiveMisses, AcceptedOf(r), 1)
                    atOrAbove == {i \in 1..Len(after) : after[i] >= settings.wasteThreshold}
                IN  /\ toasts' >= toasts
                    /\ toasts' - toasts <= Cardinality(atOrAbove)
                    /\ toasts' > toasts => settings.autoPauseOnWaste
        /\ (\A r \in ReqIds : ~Processes(r)) => toasts' = toasts ]_vars

\* Two warnings although no record ever had a cache read.
C5_Witness ==
    /\ toasts >= 2
    /\ dailyStats.cacheReadTokens = 0

UsagesOf(h) == [i \in 1..Len(h) |-> h[i].usage]

LastN(s, n) == IF Len(s) <= n THEN s ELSE SubSeq(s, Len(s) - n + 1, Len(s))

MsgCount(messages) == IF IsNull(messages) THEN 0 ELSE Len(Val(messages))

\* C6: requestHistory never exceeds 100 entries and holds the most recent
\* accepted records in arrival order: after a handler step it is the old
\* history followed by the step's accepted records, cut to the last 100.
C6_HistoryHoldsRecent ==
    [][ \A r \in ReqIds :
          Processes(r) =>
            /\ Len(sessionStats'.requestHistory) <= HistoryCap
            /\ UsagesOf(sessionStats'.requestHistory)
                 = LastN(UsagesOf(sessionStats.requestHistory) \o AcceptedOf(r),
                         HistoryCap) ]_vars

\* C7: a step that processes one accepted record diagnoses a miss against
\* the snapshot as it stood before the record, and afterwards the snapshot
\* holds exactly the current request's messages, their fingerprints and the
\* time of processing.
C7_SnapshotReplaced ==
    [][ \A r \in ReqIds :
          (Processes(r) /\ Len(AcceptedOf(r)) = 1) =>
            LET h == sessionStats'.requestHistory
                u == AcceptedOf(r)[1]
            IN  /\ previousRequest'.messages = currentRequest.messages
                /\ previousRequest'.messageHashes
                     = Some(hashMessages(currentRequest.messages))
                /\ previousRequest'.timestamp = now
                /\ (u.cache_read_input_tokens = 0 /\ u.cache_creation_input_tokens > 0) =>
                     /\ Len(h) > 0
                     /\ h[Len(h)].analysis
                          = Some(analyzeCacheMiss(previousRequest, currentRequest.messages,
                                                  hashMessages(currentRequest.messages),
                                                  now)) ]_vars

\* C8: the history entry made for a request's record carries that request's
\* own message count, message fingerprints and response time.
C8_EntryOfItsRequest ==
    [][ \A r \in ReqIds :
          (Processes(r)
             /\ Len(sessionStats'.requestHistory) > Len(sessionStats.requestHistory)) =>
            LET h == sessionStats'.requestHistory
                e == h[Len(h)]
            IN  /\ e.messageCount = MsgCount(reqs[r].requestMessages)
                /\ e.messageHashes = hashMessages(reqs[r].requestMessages)
                /\ e.responseTimeMs = now - reqs[r].startTime ]_vars

\* C9: each intercepted response yields at most one accepted record, so the
\* number of accepted records never exceeds the number of requests sent.
C9_OneRecordPerResponse ==
    /\ dailyStats.requests <= nextReq - 1
    /\ sessionStats.totalRequests <= nextReq - 1

\* C10: a step whose records all carry a non-Claude model leaves the
\* counters, history, snapshot, daily totals, chat and warnings untouched.
C10_NonClaudeDropped ==
    [][ \A r \in ReqIds :
          (Processes(r) /\ CallsOf(r) # <<>> /\ AcceptedOf(r) = <<>>) => G' = G ]_vars

\* The tap of a response has parsed a non-Claude record and nothing is counted.
C10_Witness ==
    \E r \in ReqIds :
        /\ reqs[r].response = Streamed(3)
        /\ reqs[r].pos = 1
        /\ reqs[r].usageFound
        /\ sessionStats.totalRequests = 0
        /\ dailyStats.requests = 0
        /\ ~detectedClaudeUsage

\* The payloads of the frames that the next turn of r's read loop completes.
NewPayloads(r) ==
    LET events == splitEvents(reqs[r].sseBuffer
                                \o decode(Upstream(r).chunks[reqs[r].pos + 1]), 1, <<>>)
    IN  eventPayloads(SubSeq(events, 1, Len(events) - 1), 1)

\* The record of a payload when the shapes are tested in the order
\* message_delta, message_start, generic usage object.
DeltaStartGeneric(data) ==
    IF data.type = "message_delta" /\ data.usage.present
    THEN Some([model |-> ClaudeStr,
               input_tokens |-> Or(data.usage.input_tokens, 0),
               output_tokens |-> Or(data.usage.output_tokens, 0),
               cache_read_input_tokens |-> Or(data.usage.cache_read_input_tokens, 0),
               cache_creation_input_tokens |-> Or(data.usage.cache_creation_input_tokens, 0)])
    ELSE IF data.type = "message_start" /\ data.message.present /\ data.message.usage.present
    THEN Some([model |-> OrStr(data.message.model, ClaudeStr),
               input_tokens |-> Or(data.message.usage.input_tokens, 0),
               output_tokens |-> Or(data.message.usage.output_tokens, 0),
               cache_read_input_tokens |-> Or(data.message.usage.cache_read_input_tokens, 0),
               cache_creation_input_tokens |->
                   Or(data.message.usage.cache_creation_input_tokens, 0)])
    ELSE IF data.usage.present
    THEN Some([model |-> data.model,
               input_tokens |-> Or(data.usage.prompt_tokens, Or(data.usage.input_tokens, 0)),
               output_tokens |-> Or(data.usage.completion_tokens, Or(data.usage.output_tokens, 0)),
               cache_read_input_tokens |->
                   Or(data.usage.cache_read_input_tokens, Or(data.usage.cached_tokens, 0)),
               cache_creation_input_tokens |-> Or(data.usage.cache_creation_input_tokens, 0)])
    ELSE Null

RECURSIVE DeltaStartGenericCalls(_, _)
DeltaStartGenericCalls(payloads, i) ==
    IF i > Len(payloads) THEN <<>>
    ELSE LET data == JsonParse(payloads[i])
             usage == IF IsNull(data) THEN Null ELSE DeltaStartGeneric(Val(data))
         IN  (IF ~IsNull(usage) /\ Val(usage).input_tokens > 0 THEN <<Val(usage)>> ELSE <<>>)
             \o DeltaStartGenericCalls(payloads, i + 1)

\* C11: the extractor tests message_delta, then message_start, then the
\* generic usage object: the records a turn of the read loop hands on are the
\* records of its payloads under that order (a message_delta payload with a
\* usage object gives a record whose model is Claude).
C11_DeltaStartGeneric ==
    [][ \A r \in ReqIds :
          (Processes(r) /\ reqs[r].isStreaming /\ reqs'[r].dstate = "readable") =>
            CallsOf(r) = DeltaStartGenericCalls(NewPayloads(r), 1) ]_vars

RECURSIVE TextRead(_, _)
TextRead(r, n) ==
    IF n = 0 THEN <<>> ELSE TextRead(r, n - 1) \o decode(Upstream(r).chunks[n])

\* The payloads of the frames of a text that are closed by a blank line, the
\* text taken whole.
WholePayloads(text) ==
    LET events == splitEvents(text, 1, <<>>)
    IN  eventPayloads(SubSeq(events, 1, Len(events) - 1), 1)

IsPrefix(s, t) == Len(s) <= Len(t) /\ s = SubSeq(t, 1, Len(s))

\* C12: the payloads handed to the extractor depend on the text read, not on
\* its cut into chunks: after every turn of the read loop the payloads handed
\* over so far are the payloads of the closed frames of the text read so far,
\* each once and whole (a turn that raises stops inside its payloads).
C12_ChunkingIndependent ==
    [][ \A r \in ReqIds :
          (Processes(r) /\ reqs[r].isStreaming) =>
            LET seen == tapChunk(reqs[r], Upstream(r).chunks[reqs[r].pos + 1],
                                 G, settings, now).seen
                before == WholePayloads(TextRead(r, reqs[r].pos))
                after == WholePayloads(TextRead(r, reqs[r].pos + 1))
            IN  /\ IsPrefix(before \o seen, after)
                /\ reqs'[r].dstate = "readable" => before \o seen = after ]_vars

\* A chunk boundary fell inside the blank line that closes a frame, and the
\* frame's record was counted when the rest of the blank line arrived.
C12_Witness ==
    \E r \in ReqIds :
        /\ reqs[r].isStreaming /\ reqs[r].pos = 2
        /\ LET first == decode(Upstream(r).chunks[1])
           IN  /\ first[Len(first)] = NL
               /\ first[Len(first) - 1] # NL
               /\ decode(Upstream(r).chunks[2])[1] = NL
        /\ sessionStats.totalRequests = 1

\* C13: stream termination is propagated and never retried.  The step a tap
\* takes when its next upstream read fails errors the downstream stream (or is
\* the consumer's cancel), marks no request active and reads nothing; a cancel
\* marks no request active; a tap that is errored, cancelled or closed never
\* reads or processes again.
C13_TerminationPropagated ==
    [][ \A r \in ReqIds :
          /\ (Reading(r) /\ reqs[r].pos = Len(Upstream(r).chunks) /\ Upstream(r).fails
                /\ reqs'[r] # reqs[r]) =>
               /\ reqs'[r].dstate \in {"errored", "canceled"}
               /\ reqs'[r] = [reqs[r] EXCEPT !.dstate = reqs'[r].dstate]
               /\ ~currentRequest'.active
               /\ sessionStats' = sessionStats
          /\ (reqs[r].dstate # "canceled" /\ reqs'[r].dstate = "canceled") =>
               /\ Reading(r)
               /\ ~currentRequest'.active
          /\ reqs[r].dstate \in {"errored", "canceled", "closed"} =>
               reqs'[r] = reqs[r] ]_vars

\* The only request's upstream read failed after its two chunks were
\* processed without an exception: the stream is errored and no request is
\* active.
C13_Witness ==
    \E r \in ReqIds :
        /\ reqs[r].dstate = "errored"
        /\ Upstream(r).fails
        /\ reqs[r].pos = Len(Upstream(r).chunks)
        /\ ~currentRequest.active
        /\ nextReq = 2
        /\ Len(sessionStats.requestHistory) = 1

\* ------------------------------------------------------------------------
\* The diagnosis of the first history entry a step appends, made against the
\* previousRequest and the clock of the state the step starts in.
Grew == Len(sessionStats'.requestHistory) > Len(sessionStats.requestHistory)
NewEntry == sessionStats'.requestHistory[Len(sessionStats.requestHistory) + 1]
Diagnosed == Grew /\ ~IsNull(NewEntry.analysis)
NewAnalysis == Val(NewEntry.analysis)
HasReason(a, reason) == \E i \in 1..Len(a.reasons) : a.reasons[i] = reason
LastEntry == sessionStats.requestHistory[Len(sessionStats.requestHistory)]

\* C14: a write-miss processed while no previous snapshot exists is diagnosed
\* with the single reason "First request - no previous cache", ttlWarning
\* false, and no divergence, location analysis, lore issue or primary
\* diagnosis.
C14_FirstRequest ==
    [][ (previousRequest = NoPrevious /\ Diagnosed) =>
          /\ NewAnalysis.reasons = <<"First request - no previous cache">>
          /\ ~NewAnalysis.ttlWarning
          /\ IsNull(NewAnalysis.divergence)
          /\ IsNull(NewAnalysis.locationAnalysis)
          /\ IsNull(NewAnalysis.loreIssue)
          /\ IsNull(NewAnalysis.primaryDiagnosis) ]_vars

\* A first write-miss has been diagnosed.
C14_Witness ==
    /\ sessionStats.totalRequests = 1
    /\ Len(sessionStats.requestHistory) = 1
    /\ ~IsNull(LastEntry.analysis)
    /\ Val(LastEntry.analysis).reasons = <<"First request - no previous cache">>
    /\ previousRequest # NoPrevious

\* The current request carries the previous snapshot's messages followed by
\* one appended user turn.
AppendedUserTurn ==
    /\ ~IsNull(previousRequest.messages)
    /\ ~IsNull(currentRequest.messages)
    /\ Len(Val(currentRequest.messages)) = Len(Val(previousRequest.messages)) + 1
    /\ SubSeq(Val(currentRequest.messages), 1, Len(Val(previousRequest.messages)))
         = Val(previousRequest.messages)
    /\ Val(currentRequest.messages)[Len(Val(currentRequest.messages))].role = "user"

\* With 400000 ms elapsed the diagnosis has ttlWarning and the TTL reason.
TtlPartOfC15 ==
    now - previousRequest.timestamp = 400000 =>
        NewAnalysis.ttlWarning /\ HasReason(NewAnalysis, "TTL expired")

\* C15 as stated: an appended user turn is diagnosed with location "late" and
\* primary diagnosis "Chat History Change" for every length of the previous
\* message sequence, and with 400000 ms elapsed also with ttlWarning and a
\* "TTL expired" reason.
C15_AppendedTurnIsLate ==
    [][ (AppendedUserTurn /\ Diagnosed) =>
          /\ ~IsNull(NewAnalysis.locationAnalysis)
          /\ Val(NewAnalysis.locationAnalysis).location = "late"
          /\ NewAnalysis.primaryDiagnosis = Some("Chat History Change")
          /\ TtlPartOfC15 ]_vars

\* C15 amended: an appended user turn is diagnosed with location "late" and
\* primary diagnosis "Chat History Change" when the previous sequence has at
\* least 4 messages; with 3 previous messages the location is "middle" and
\* there is no primary diagnosis, with fewer than 3 it is "early" with
\* primary diagnosis "Early Prompt Instability"; with 400000 ms elapsed the
\* diagnosis also has ttlWarning and a "TTL expired" reason.
C15_AppendedTurnByLength ==
    [][ (AppendedUserTurn /\ Diagnosed) =>
          LET n == Len(Val(previousRequest.messages))
              loc == Val(NewAnalysis.locationAnalysis).location
          IN  /\ ~IsNull(NewAnalysis.locationAnalysis)
              /\ n >= 4 => /\ loc = "late"
                           /\ NewAnalysis.primaryDiagnosis = Some("Chat History Change")
              /\ n = 3 => loc = "middle" /\ IsNull(NewAnalysis.primaryDiagnosis)
              /\ n < 3 => /\ loc = "early"
                          /\ NewAnalysis.primaryDiagnosis
                               = Some("Early Prompt Instability")
              /\ TtlPartOfC15 ]_vars

\* A user turn appended to four messages, 400000 ms after the previous
\* record, has been diagnosed as late chat-history change with a TTL warning.
C15_Witness ==
    /\ Len(sessionStats.requestHistory) = 2
    /\ sessionStats.requestHistory[1].messageCount = 4
    /\ LastEntry.messageCount = 5
    /\ [i \in 1..4 |-> LastEntry.messageHashes[i].hash]
         = [i \in 1..4 |-> sessionStats.requestHistory[1].messageHashes[i].hash]
    /\ LastEntry.messageHashes[5].role = "user"
    /\ ~IsNull(LastEntry.analysis)
    /\ Val(LastEntry.analysis).timeSinceLastRequest = Some(400000)
    /\ Val(LastEntry.analysis).ttlWarning
    /\ Val(Val(LastEntry.analysis).locationAnalysis).location = "late"
    /\ Val(LastEntry.analysis).primaryDiagnosis = Some("Chat History Change")

\* The index findDivergencePoint is to return for two fingerprint sequences.
DifferingIndexes(prevHashes, currHashes) ==
    { i \in 0..(Min(Len(prevHashes), Len(currHashes)) - 1) :
        prevHashes[i + 1].hash # currHashes[i + 1].hash }
ExpectedDivergeIndex(prevHashes, currHashes) ==
    LET D == DifferingIndexes(prevHashes, currHashes)
    IN  IF D # {} THEN CHOOSE i \in D : \A j \in D : i <= j
        ELSE IF Len(prevHashes) # Len(currHashes)
        THEN Min(Len(prevHashes), Len(currHashes))
        ELSE -1

\* C16: findDivergencePoint returns the smallest index at which the hashes
\* differ, even if later indexes differ too; when the common indexes match
\* and the lengths differ, the shorter length as a length-changed
\* divergence; for equal sequences no divergence (-1).
C16_SmallestDifferingIndex ==
    [][ (Diagnosed /\ ~IsNull(previousRequest.messageHashes)) =>
          LET prevHashes == Val(previousRequest.messageHashes)
              currHashes == NewEntry.messageHashes
              D == DifferingIndexes(prevHashes, currHashes)
          IN  /\ ~IsNull(NewAnalysis.divergence)
              /\ Val(NewAnalysis.divergence).divergeIndex
                   = ExpectedDivergeIndex(prevHashes, currHashes)
              /\ D # {} => Val(NewAnalysis.divergence).reason = "Message changed"
              /\ (D = {} /\ Len(prevHashes) # Len(currHashes)) =>
                     Val(NewAnalysis.divergence).reason = "Message count changed"
              /\ (D = {} /\ Len(prevHashes) = Len(currHashes)) =>
                     /\ Val(NewAnalysis.divergence).divergeIndex = -1
                     /\ Val(NewAnalysis.divergence).reason = "No divergence detected" ]_vars

\* Two sequences that differ at two indexes have been compared, and the
\* smaller index, not the first one, was reported.
C16_Witness ==
    /\ Len(sessionStats.requestHistory) = 2
    /\ ~IsNull(LastEntry.analysis)
    /\ ~IsNull(Val(LastEntry.analysis).divergence)
    /\ Val(Val(LastEntry.analysis).divergence).divergeIndex > 0
    /\ Cardinality(DifferingIndexes(sessionStats.requestHistory[1].messageHashes,
                                    LastEntry.messageHashes)) = 2

\* C17: a diagnosis has ttlWarning and a "TTL expired" reason if and only if
\* a previous snapshot timestamp exists and more than 300000 ms have passed
\* since it; at exactly 300000 ms there is neither.
C17_TtlStrictlyAbove ==
    [][ Diagnosed =>
          LET expired == /\ previousRequest.timestamp # 0
                         /\ now - previousRequest.timestamp > 300000
          IN  /\ NewAnalysis.ttlWarning <=> expired
              /\ HasReason(NewAnalysis, "TTL expired") <=> expired ]_vars

\* A record was diagnosed exactly 300000 ms after the previous one, without
\* a TTL warning.
C17_Witness ==
    /\ Len(sessionStats.requestHistory) = 2
    /\ ~IsNull(LastEntry.analysis)
    /\ Val(LastEntry.analysis).timeSinceLastRequest = Some(300000)
    /\ ~Val(LastEntry.analysis).ttlWarning
    /\ ~HasReason(Val(LastEntry.analysis), "TTL expired")

\* The conditions of the precedence, highest rank first, and their issues.
DiagnosisConditions(a) ==
    << ~IsNull(a.loreIssue) /\ Val(a.loreIssue).type = "reordering",
       ~IsNull(a.loreIssue) /\ Val(a.loreIssue).type = "different_entries",
       Val(a.locationAnalysis).likelyCause = "depth_configuration",
       Val(a.locationAnalysis).likelyCause = "lorebook_depth_injection",
       Val(a.locationAnalysis).location = "late",
       Val(a.locationAnalysis).location = "early" >>
DiagnosisIssues ==
    << "Lorebook Ordering Issue", "Different Lorebook Entries",
       "Depth Configuration Issue", "Lorebook Depth Issue",
       "Chat History Change", "Early Prompt Instability" >>

\* C18: the primary diagnosis of a divergence is the issue of the highest
\* ranked condition that holds (lore reordering, different entries, depth
\* configuration, lorebook depth injection, late, early), none when no
\* condition holds; a middle divergence without lore entries has none.
C18_Precedence ==
    [][ (Diagnosed /\ ~IsNull(NewAnalysis.locationAnalysis)) =>
          LET conds == DiagnosisConditions(NewAnalysis)
              holding == { k \in 1..Len(conds) : conds[k] }
          IN  /\ holding # {} =>
                    NewAnalysis.primaryDiagnosis
                      = Some(DiagnosisIssues[CHOOSE k \in holding :
                                                \A m \in holding : k <= m])
              /\ holding = {} => IsNull(NewAnalysis.primaryDiagnosis)
              /\ ( /\ Val(NewAnalysis.locationAnalysis).location = "middle"
                   /\ ~Val(NewAnalysis.prevPatterns).hasLoreEntries
                   /\ ~Val(NewAnalysis.currPatterns).hasLoreEntries )
                   => IsNull(NewAnalysis.primaryDiagnosis) ]_vars

\* A lore reordering at a late location has been diagnosed as a lorebook
\* ordering issue.
C18_Witness ==
    /\ Len(sessionStats.requestHistory) = 2
    /\ ~IsNull(LastEntry.analysis)
    /\ ~IsNull(Val(LastEntry.analysis).locationAnalysis)
    /\ Val(Val(LastEntry.analysis).locationAnalysis).location = "late"
    /\ ~IsNull(Val(LastEntry.analysis).loreIssue)
    /\ Val(Val(LastEntry.analysis).loreIssue).type = "reordering"
    /\ Val(LastEntry.analysis).primaryDiagnosis = Some("Lorebook Ordering Issue")

\* The index of the most recent non-user message of a chat (0 when none).
LatestNonUser(c) ==
    LET S == { i \in 1..Len(c) : ~c[i].is_user }
    IN  IF S = {} THEN 0 ELSE CHOOSE i \in S : \A j \in S : j <= i
CountersOf(usage) ==
    [cache_read_input_tokens |-> usage.cache_read_input_tokens,
     cache_creation_input_tokens |-> usage.cache_creation_input_tokens,
     input_tokens |-> usage.input_tokens,
     output_tokens |-> usage.output_tokens]

\* C19: whenever a record is saved and the chat holds a non-user message,
\* the most recent non-user message carries the four counters of the record
\* afterwards, also when the last chat message is a user message.
C19_LatestNonUserGetsCounters ==
    [][ (Grew /\ LatestNonUser(chat) > 0) =>
          chat'[LatestNonUser(chat')].extra
            = Some(CountersOf(sessionStats'.requestHistory[
                                 Len(sessionStats'.requestHistory)].usage)) ]_vars

\* The lookup of request r ends in this step without statistics.
LookupFails(r) ==
    /\ reqs[r].phase = "lookup"
    /\ reqs'[r].phase # "lookup"
    /\ reqs'[r].lookup \in {"no key", "status", "network", "parse"}

\* C20: a remote lookup that fails (no key, status not ok, network or parse
\* error) returns null, the record of the answer is still processed, with
\* cache_read = 0 and cache_creation = 0 (counted as a request that is
\* neither hit nor miss), and the response is returned to the host.
C20_FailedLookupNonFatal ==
    [][ \A r \in ReqIds : LookupFails(r) =>
          /\ IsNull(reqs'[r].genStats)
          /\ reqs'[r].phase = "done"
          /\ Obj(reqs[r].response.json).usage.present =>
                /\ sessionStats'.totalRequests = sessionStats.totalRequests + 1
                /\ ~IsNull(sessionStats'.lastUsage)
                /\ Val(sessionStats'.lastUsage).cache_read_input_tokens = 0
                /\ Val(sessionStats'.lastUsage).cache_creation_input_tokens = 0
                /\ Val(sessionStats'.lastUsage).input_tokens
                     = Obj(reqs[r].response.json).usage.prompt_tokens
                /\ sessionStats'.cacheHits = sessionStats.cacheHits
                /\ sessionStats'.cacheMisses = sessionStats.cacheMisses ]_vars

\* With a key configured the endpoint answered with a status that is not ok,
\* and the record was counted with zero cache counters and saved.
C20_Witness ==
    /\ reqs[1].phase = "done"
    /\ reqs[1].lookup = "status"
    /\ settings.openrouterApiKey # ""
    /\ IsNull(reqs[1].genStats)
    /\ sessionStats.totalRequests = 1
    /\ Len(sessionStats.requestHistory) = 1
    /\ sessionStats.requestHistory[1].usage.cache_read_input_tokens = 0
    /\ sessionStats.requestHistory[1].usage.cache_creation_input_tokens = 0

\* The six session counters, in the order of the declaration.
SessionCounters(ss) ==
    <<ss.totalRequests, ss.cacheHits, ss.cacheMisses, ss.totalInputTokens,
      ss.totalCacheReadTokens, ss.totalCacheWriteTokens>>

\* C21: in a step that is not the reset no session counter (totalRequests,
\* cacheHits, cacheMisses, totalInputTokens, totalCacheReadTokens,
\* totalCacheWriteTokens) decreases; the reset sets all counters and
\* consecutiveMisses to 0, lastUsage to null and the history to empty.
C21_MonotoneBetweenResets ==
    [][ /\ ResetStats =>
              /\ \A i \in 1..6 : SessionCounters(sessionStats')[i] = 0
              /\ sessionStats'.consecutiveMisses = 0
              /\ IsNull(sessionStats'.lastUsage)
              /\ sessionStats'.requestHistory = <<>>
        /\ ~ResetStats =>
              \A i \in 1..6 :
                  SessionCounters(sessionStats')[i] >= SessionCounters(sessionStats)[i]
      ]_vars

\* The reset has acted after records were counted: today's statistics hold
\* two requests while the session is back at its zero state.
C21_Witness ==
    /\ dailyStats.requests = 2
    /\ sessionStats = EmptyStats

\* C22: the configured waste threshold is a positive integer in every
\* reachable state: 3 at the start, and an integer >= 1 after any sequence
\* of texts entered in the threshold field.
C22_ThresholdPositive ==
    /\ settings.wasteThreshold \in Int
    /\ settings.wasteThreshold >= 1

\* The records of the history.
HistoryEntries == { sessionStats.requestHistory[i] : i \in 1..Len(sessionStats.requestHistory) }
NonNegativeCounters(u) ==
    /\ u.input_tokens >= 0 /\ u.output_tokens >= 0
    /\ u.cache_read_input_tokens >= 0 /\ u.cache_creation_input_tokens >= 0

\* C23: calculateCosts never bills a negative quantity: for every recorded
\* usage with non-negative counters the input cost is the price of
\* max(0, input_tokens - cache_read_input_tokens) tokens, and inputCost,
\* outputCost, cacheWriteCost, cacheReadCost, totalCost and costWithoutCache
\* are all >= 0, also when cache_read exceeds input_tokens.
C23_NeverNegative ==
    \A e \in HistoryEntries : NonNegativeCounters(e.usage) =>
        /\ e.costs.inputCost
             = (IF e.usage.input_tokens > e.usage.cache_read_input_tokens
                THEN e.usage.input_tokens - e.usage.cache_read_input_tokens ELSE 0)
               * pricing(e.usage.model).inputPrice
        /\ e.costs.inputCost >= 0
        /\ e.costs.outputCost >= 0
        /\ e.costs.cacheWriteCost >= 0
        /\ e.costs.cacheReadCost >= 0
        /\ e.costs.totalCost >= 0
        /\ e.costs.costWithoutCache >= 0

\* A record whose cache read exceeds its input tokens was billed: no input
\* cost, a positive cache-read cost.
C23_Witness ==
    \E e \in HistoryEntries :
        /\ e.usage.cache_read_input_tokens > e.usage.input_tokens
        /\ e.usage.input_tokens > 0
        /\ e.costs.inputCost = 0
        /\ e.costs.cacheReadCost > 0

\* C24: savings is costWithoutCache minus totalCost, and it is negative only
\* when the cache-write overhead outweighs the read benefit: for every
\* recorded usage with cache_creation_input_tokens = 0, savings >= 0.
C24_SavingsNegativeOnlyWithWrites ==
    \A e \in HistoryEntries :
        /\ e.costs.savings = e.costs.costWithoutCache - e.costs.totalCost
        /\ e.usage.cache_creation_input_tokens = 0 => e.costs.savings >= 0

\* The tier that none of the model patterns selects.
DefaultTier(model) ==
    /\ ~testI(model, <<"o", "p", "u", "s">>)
    /\ ~testI(model, <<"h", "a", "i", "k", "u">>)

\* C25: for a recorded usage with no cache activity (cache_read = 0 and
\* cache_creation = 0) totalCost = costWithoutCache and savings = 0, for
\* every input and output count; on the default (Sonnet) tier a million
\* input tokens and no output tokens give inputCost = 3.0.
C25_NoCacheActivity ==
    \A e \in HistoryEntries :
        (e.usage.cache_read_input_tokens = 0 /\ e.usage.cache_creation_input_tokens = 0) =>
            /\ e.costs.totalCost = e.costs.costWithoutCache
            /\ e.costs.savings = 0
            /\ (DefaultTier(e.usage.model) /\ e.usage.input_tokens = PerMillion
                  /\ e.usage.output_tokens = 0) =>
                    e.costs.inputCost = 3 * CostUnit

\* The Sonnet record of a million input tokens without output or cache
\* activity was billed.
C25_Witness ==
    \E e \in HistoryEntries :
        /\ DefaultTier(e.usage.model)
        /\ e.usage.input_tokens = PerMillion
        /\ e.usage.output_tokens = 0
        /\ e.usage.cache_read_input_tokens = 0
        /\ e.usage.cache_creation_input_tokens = 0
        /\ e.costs.inputCost = 3 * CostUnit
        /\ e.costs.savings = 0

\* C26: the hit rate shown in the panel is the percentage of accepted
\* requests that had a cache read, round(100 * cacheHits / totalRequests),
\* and it lies between 0 and 100.
C26_HitRateOfRequests ==
    sessionStats.totalRequests > 0 =>
        /\ hitRate(sessionStats)
             = roundPercent(sessionStats.cacheHits, sessionStats.totalRequests)
        /\ hitRate(sessionStats) >= 0
        /\ hitRate(sessionStats) <= 100

\* Comparison of two lists of names as multisets.
Names(s) == { s[i] : i \in 1..Len(s) }
CountIn(e, s) == Cardinality({ i \in 1..Len(s) : s[i] = e })
SameMultiset(p, c) == \A e \in Names(p) \cup Names(c) : CountIn(e, p) = CountIn(e, c)
LoreTypeByMultiset(p, c) ==
    IF p = c THEN "none"
    ELSE IF SameMultiset(p, c) THEN "reordering" ELSE "different_entries"
LoreTypeOf(issue) == IF IsNull(issue) THEN "none" ELSE Val(issue).type

\* C27: the lore check of a diagnosed divergence classifies the entry names
\* of the two diverging messages by multiset: equal multisets in a different
\* order give "reordering"; different multisets (also with repeated names,
\* and with one list empty) give "different_entries" with the added and the
\* removed names; identical lists give no lore issue.
C27_LoreByMultiset ==
    [][ (Diagnosed /\ ~IsNull(NewAnalysis.prevPatterns)) =>
          LET prevNames == Val(NewAnalysis.prevPatterns).loreEntryNames
              currNames == Val(NewAnalysis.currPatterns).loreEntryNames
          IN  /\ LoreTypeOf(NewAnalysis.loreIssue)
                   = LoreTypeByMultiset(prevNames, currNames)
              /\ LoreTypeOf(NewAnalysis.loreIssue) = "different_entries" =>
                    /\ Names(Val(NewAnalysis.loreIssue).added)
                         = Names(currNames) \ Names(prevNames)
                    /\ Names(Val(NewAnalysis.loreIssue).removed)
                         = Names(prevNames) \ Names(currNames) ]_vars

\* The location the position of a divergence calls for: index i among n
\* current messages, the ratio i / n being below no number when n = 0.
LocationOf(i, n) ==
    IF (n > 0 /\ 5 * i < n) \/ i < 3 THEN "early"
    ELSE IF n > 0 /\ 5 * i < 4 * n THEN "middle"
    ELSE "late"

\* C28: a divergence at index i among n current messages is located "early"
\* if i / n < 0.2 or i < 3, otherwise "middle" if i / n < 0.8, otherwise
\* "late"; one of the three locations is assigned for every i and n,
\* including n = 0.
C28_Location ==
    [][ (Diagnosed /\ ~IsNull(NewAnalysis.locationAnalysis)) =>
          /\ Val(NewAnalysis.locationAnalysis).location
               = LocationOf(Val(NewAnalysis.divergence).divergeIndex,
                            Len(NewEntry.messageHashes))
          /\ Val(NewAnalysis.locationAnalysis).location \in {"early", "middle", "late"}
      ]_vars

\* A divergence at index 3 of a chat of more than fifteen messages has been
\* located early, by its ratio alone.
C28_Witness ==
    /\ Len(sessionStats.requestHistory) > 0
    /\ ~IsNull(LastEntry.analysis)
    /\ ~IsNull(Val(LastEntry.analysis).locationAnalysis)
    /\ Val(Val(LastEntry.analysis).divergence).divergeIndex = 3
    /\ Len(LastEntry.messageHashes) = LongChat
    /\ Val(Val(LastEntry.analysis).locationAnalysis).location = "early"

\* What a diagnosed divergence shows of its location analysis and patterns.
CauseOf(a) == <<Val(a.locationAnalysis).likelyCause, Val(a.locationAnalysis).severity>>
LocatedAt(a, location) == Val(a.locationAnalysis).location = location
LoreIssueIs(a, type) == ~IsNull(a.loreIssue) /\ Val(a.loreIssue).type = type
AnyDepthMarkers(a) ==
    Val(a.prevPatterns).hasDepthMarkers \/ Val(a.currPatterns).hasDepthMarkers
AnyLoreEntries(a) ==
    Val(a.prevPatterns).hasLoreEntries \/ Val(a.currPatterns).hasLoreEntries

\* Middle and late divergences, and the severity of late ones.
MiddleAndLateCauses(a) ==
    /\ (LocatedAt(a, "middle") /\ AnyLoreEntries(a)) =>
           CauseOf(a) = <<"lorebook_depth_injection", "high">>
    /\ (LocatedAt(a, "middle") /\ ~AnyLoreEntries(a)) =>
           CauseOf(a) = <<"injected_content", "medium">>
    /\ LocatedAt(a, "late") => CauseOf(a) = <<"chat_history", "low">>
    /\ Val(a.locationAnalysis).severity = "low" <=> LocatedAt(a, "late")

\* C29 as stated: early with lore reordering gives lorebook_ordering (high),
\* early with depth markers gives depth_configuration (high), every other
\* early divergence gives system_prompt_change (medium); middle with lore
\* entries gives lorebook_depth_injection (high), every other middle
\* divergence injected_content (medium); late gives chat_history (low); the
\* severity is low if and only if the location is late.
C29_CauseAsStated ==
    [][ (Diagnosed /\ ~IsNull(NewAnalysis.locationAnalysis)) =>
          LET a == NewAnalysis
          IN  /\ (LocatedAt(a, "early") /\ LoreIssueIs(a, "reordering")) =>
                     CauseOf(a) = <<"lorebook_ordering", "high">>
              /\ (LocatedAt(a, "early") /\ ~LoreIssueIs(a, "reordering")
                     /\ AnyDepthMarkers(a)) =>
                     CauseOf(a) = <<"depth_configuration", "high">>
              /\ (LocatedAt(a, "early") /\ ~LoreIssueIs(a, "reordering")
                     /\ ~AnyDepthMarkers(a)) =>
                     CauseOf(a) = <<"system_prompt_change", "medium">>
              /\ MiddleAndLateCauses(a) ]_vars

\* C29 amended: an early divergence whose lore check reports different
\* entries gives lorebook_keywords (medium), before the depth markers are
\* looked at; early with a reported lore reordering gives lorebook_ordering
\* (high); early without a lore issue and with depth markers gives
\* depth_configuration (high); every other early divergence gives
\* system_prompt_change (medium); middle and late as stated, and the severity
\* is low if and only if the location is late.
C29_CauseWithKeywords ==
    [][ (Diagnosed /\ ~IsNull(NewAnalysis.locationAnalysis)) =>
          LET a == NewAnalysis
          IN  /\ (LocatedAt(a, "early") /\ LoreIssueIs(a, "reordering")) =>
                     CauseOf(a) = <<"lorebook_ordering", "high">>
              /\ (LocatedAt(a, "early") /\ LoreIssueIs(a, "different_entries")) =>
                     CauseOf(a) = <<"lorebook_keywords", "medium">>
              /\ (LocatedAt(a, "early") /\ IsNull(a.loreIssue) /\ AnyDepthMarkers(a)) =>
                     CauseOf(a) = <<"depth_configuration", "high">>
              /\ (LocatedAt(a, "early") /\ IsNull(a.loreIssue) /\ ~AnyDepthMarkers(a)) =>
                     CauseOf(a) = <<"system_prompt_change", "medium">>
              /\ MiddleAndLateCauses(a) ]_vars

\* An early divergence with different lore entries has been given the cause
\* lorebook_keywords with medium severity.
C29_Witness ==
    /\ Len(sessionStats.requestHistory) > 0
    /\ ~IsNull(LastEntry.analysis)
    /\ ~IsNull(Val(LastEntry.analysis).locationAnalysis)
    /\ LocatedAt(Val(LastEntry.analysis), "early")
    /\ LoreIssueIs(Val(LastEntry.analysis), "different_entries")
    /\ CauseOf(Val(LastEntry.analysis)) = <<"lorebook_keywords", "medium">>

\* Both first messages are system messages and their hashes differ.
BothSystemAndDifferent ==
    /\ ~IsNull(previousRequest.messages)
    /\ Len(Val(previousRequest.messages)) > 0
    /\ Val(previousRequest.messages)[1].role = "system"
    /\ ~IsNull(currentRequest.messages)
    /\ Len(Val(currentRequest.messages)) > 0
    /\ Val(currentRequest.messages)[1].role = "system"
    /\ msgHash(Val(previousRequest.messages)[1]) # msgHash(Val(currentRequest.messages)[1])

\* The reasons of an analysis in detection order: the TTL or first-request
\* reason, the divergence reason, the system-prompt reason.
ReasonsInOrder(a) ==
    (IF HasReason(a, "TTL expired") THEN <<"TTL expired">>
     ELSE IF HasReason(a, "First request - no previous cache")
     THEN <<"First request - no previous cache">> ELSE <<>>)
    \o (IF ~IsNull(a.divergence) /\ Val(a.divergence).divergeIndex >= 0
        THEN <<Val(a.divergence).reason>> ELSE <<>>)
    \o (IF HasReason(a, "System prompt changed")
        THEN <<"System prompt changed">> ELSE <<>>)

\* C30: the reason "System prompt changed" is in a diagnosis if and only if
\* the first message of the previous snapshot and the current first message
\* are both system messages with different hashes, whatever the TTL and
\* divergence steps found; it is the last reason, after the TTL or
\* first-request reason and the divergence reason.
C30_SystemPromptReason ==
    [][ Diagnosed =>
          /\ HasReason(NewAnalysis, "System prompt changed") <=> BothSystemAndDifferent
          /\ NewAnalysis.reasons = ReasonsInOrder(NewAnalysis) ]_vars

\* A changed system prompt after the TTL has been diagnosed with three
\* reasons, the system-prompt reason last.
C30_Witness ==
    /\ Len(sessionStats.requestHistory) > 0
    /\ ~IsNull(LastEntry.analysis)
    /\ Len(Val(LastEntry.analysis).reasons) = 3
    /\ Val(LastEntry.analysis).reasons[1] = "TTL expired"
    /\ Val(LastEntry.analysis).reasons[2] = Val(Val(LastEntry.analysis).divergence).reason
    /\ Val(LastEntry.analysis).reasons[3] = "System prompt changed"

\* ------------------------------------------------------------------------
\* The first position (0-based) at which two contents differ: a position
\* where their characters differ or where one of them has ended; the common
\* length when the contents are identical.
FirstDifferingPosition(s1, s2) ==
    LET P == { i \in 0..Max(Len(s1), Len(s2)) :
                 \/ i >= Len(s1)
                 \/ i >= Len(s2)
                 \/ s1[i + 1] # s2[i + 1] }
    IN  CHOOSE i \in P : \A k \in P : i <= k

\* A context around position pos holds at most ContextChars characters of
\* the content before the position and as many from it on, the "..." marks
\* of a cut on either side not counted.
WithinContext(context, pos) ==
    Len(context) <= Min(pos, ContextChars) + ContextChars + 2 * Len(Ellipsis)

NewDiff == Val(Val(NewAnalysis.divergence).diff)
ChangedMessage ==
    /\ Diagnosed
    /\ ~IsNull(NewAnalysis.divergence)
    /\ ~IsNull(Val(NewAnalysis.divergence).diff)

\* C31: on a hash mismatch at index i, findStringDiff returns the position of
\* the first character at which the two full contents differ, and each
\* returned context holds at most 200 characters on each side of that
\* position, for all pairs of contents, an empty content on one side and two
\* identical contents included.
C31_DiffPositionAndContext ==
    [][ ChangedMessage =>
          /\ NewDiff.diffIndex
               = FirstDifferingPosition(Val(Val(NewAnalysis.divergence).prevContent),
                                        Val(Val(NewAnalysis.divergence).currContent))
          /\ WithinContext(NewDiff.context1, NewDiff.diffIndex)
          /\ WithinContext(NewDiff.context2, NewDiff.diffIndex)
      ]_vars

\* The fingerprints of the previous snapshot and of the entry a step appends,
\* at the indexes both have.
PrevFingerprints ==
    IF IsNull(previousRequest.messageHashes) THEN <<>>
    ELSE Val(previousRequest.messageHashes)
CommonIndexes == 1..Min(Len(PrevFingerprints), Len(NewEntry.messageHashes))
SameRoleAndContent(p, c) == p.role = c.role /\ p.fullContent = c.fullContent

\* C32: a fingerprint's hash depends only on the message's role and content:
\* two messages with equal role and equal content have equal hashes, whatever
\* their other fields (cache_control), so no divergence is reported between
\* them.
C32_HashOfRoleAndContent ==
    [][ Grew =>
          /\ \A i \in CommonIndexes :
               SameRoleAndContent(PrevFingerprints[i], NewEntry.messageHashes[i])
                 => PrevFingerprints[i].hash = NewEntry.messageHashes[i].hash
          /\ ChangedMessage =>
               ~SameRoleAndContent(
                  PrevFingerprints[Val(NewAnalysis.divergence).divergeIndex + 1],
                  NewEntry.messageHashes[Val(NewAnalysis.divergence).divergeIndex + 1])
      ]_vars

\* C33: after any sequence of accepted records since the last reset,
\* requestHistory.length equals min(totalRequests, 100): every accepted
\* record appends exactly one history entry and only overflow removes one.
C33_HistoryLength ==
    Len(sessionStats.requestHistory) = Min(sessionStats.totalRequests, HistoryCap)

\* Hits and miss-with-write records among accepted records.
IsHit(u) == u.cache_read_input_tokens > 0
IsMissWithWrite(u) == ~IsHit(u) /\ u.cache_creation_input_tokens > 0

\* The index of the last hit of recs (0 when it holds none) and the number
\* of miss-with-write records after index k.
LastHitIn(recs) ==
    LET H == { i \in 1..Len(recs) : IsHit(recs[i]) }
    IN  IF H = {} THEN 0 ELSE CHOOSE i \in H : \A k \in H : k <= i
MissWritesAfter(recs, k) ==
    Cardinality({ i \in (k + 1)..Len(recs) : IsMissWithWrite(recs[i]) })

\* The streak after the records recs, counted from the most recent hit, or
\* carried on from the streak before them when they hold no hit.
StreakSinceHit(streak, recs) ==
    (IF LastHitIn(recs) = 0 THEN streak ELSE 0) + MissWritesAfter(recs, LastHitIn(recs))

\* C34: in every reachable state cacheHits + cacheMisses <= totalRequests and
\* consecutiveMisses <= cacheMisses; consecutiveMisses equals the number of
\* miss-with-write records accepted since the most recent hit, or since the
\* reset if no hit followed it: a step that processes records moves it to the
\* count since the step's last hit, a reset to 0, and no other step changes
\* it; while every accepted record is in the history, it is the count over
\* the history.
C34_CounterRelations ==
    /\ [](/\ sessionStats.cacheHits + sessionStats.cacheMisses <= sessionStats.totalRequests
          /\ sessionStats.consecutiveMisses <= sessionStats.cacheMisses
          /\ Len(sessionStats.requestHistory) = sessionStats.totalRequests =>
               sessionStats.consecutiveMisses
                 = StreakSinceHit(0, UsagesOf(sessionStats.requestHistory)))
    /\ [][ /\ \A r \in ReqIds :
                Processes(r) =>
                  sessionStats'.consecutiveMisses
                    = StreakSinceHit(sessionStats.consecutiveMisses, AcceptedOf(r))
           /\ (\A r \in ReqIds : ~Processes(r)) =>
                \/ sessionStats'.consecutiveMisses = sessionStats.consecutiveMisses
                \/ sessionStats' = EmptyStats ]_vars

\* A hit followed by a miss-with-write: the streak is 1 with more requests
\* than misses counted.
C34_Witness ==
    /\ sessionStats.cacheHits >= 1
    /\ sessionStats.consecutiveMisses = 1
    /\ sessionStats.cacheMisses = 1
    /\ Len(sessionStats.requestHistory) = 2
    /\ IsHit(UsagesOf(sessionStats.requestHistory)[1])

\* C35: every history entry has a diagnosis (analysis not null) if and only
\* if its cacheWrite flag is true and its cacheHit flag is false, the flags
\* being those of its usage; hits, including records with both a cache read
\* and a cache write, and no-cache-activity records never carry a diagnosis.
C35_DiagnosisIffWriteMiss ==
    \A e \in HistoryEntries :
        /\ e.cacheHit = IsHit(e.usage)
        /\ e.cacheWrite = (e.usage.cache_creation_input_tokens > 0)
        /\ ~IsNull(e.analysis) <=> (e.cacheWrite /\ ~e.cacheHit)

\* The history holds a record with both a cache read and a cache write, and
\* it carries no diagnosis.
C35_Witness ==
    \E e \in HistoryEntries :
        /\ e.usage.cache_read_input_tokens > 0
        /\ e.usage.cache_creation_input_tokens > 0
        /\ e.cacheHit /\ e.cacheWrite
        /\ IsNull(e.analysis)

\* C36: the reset leaves the previous-request snapshot and the persistent
\* daily stats unchanged: a step that empties the session statistics changes
\* neither, and the first miss-with-write processed after a reset that
\* followed a stored snapshot is diagnosed against that snapshot (the time
\* since its timestamp, its fingerprints) and does not get the reason
\* "First request - no previous cache".
C36_ResetKeepsSnapshot ==
    [][ /\ (sessionStats # EmptyStats /\ sessionStats' = EmptyStats) =>
              /\ previousRequest' = previousRequest
              /\ dailyStats' = dailyStats
        /\ (/\ Diagnosed
            /\ sessionStats.totalRequests = 0
            /\ previousRequest.timestamp # 0) =>
              /\ ~HasReason(NewAnalysis, "First request - no previous cache")
              /\ NewAnalysis.timeSinceLastRequest = Some(now - previousRequest.timestamp)
              /\ ~IsNull(NewAnalysis.divergence)
      ]_vars

\* After a record, a reset and a miss-with-write, the only history entry is
\* diagnosed against the snapshot of the record before the reset, and the
\* daily stats count both records.
C36_Witness ==
    /\ sessionStats.totalRequests = 1
    /\ Len(sessionStats.requestHistory) = 1
    /\ dailyStats.requests = 2
    /\ ~IsNull(LastEntry.analysis)
    /\ ~HasReason(Val(LastEntry.analysis), "First request - no previous cache")
    /\ ~IsNull(Val(LastEntry.analysis).divergence)

\* C37: whenever a diagnosis contains the reason "System prompt changed", its
\* divergence is located at index 0: the stored systemPromptHash and the
\* fingerprint hash of message 0 come from the same serialization, so the two
\* checks cannot disagree.
C37_SystemPromptAtIndexZero ==
    [][ (Diagnosed /\ HasReason(NewAnalysis, "System prompt changed")) =>
          /\ ~IsNull(NewAnalysis.divergence)
          /\ Val(NewAnalysis.divergence).divergeIndex = 0
          /\ Val(previousRequest.systemPromptHash) = PrevFingerprints[1].hash
      ]_vars

\* A changed system prompt has been diagnosed: the system-prompt reason
\* stands with a changed message 0.
C37_Witness ==
    /\ Len(sessionStats.requestHistory) = 2
    /\ ~IsNull(LastEntry.analysis)
    /\ HasReason(Val(LastEntry.analysis), "System prompt changed")
    /\ Val(Val(LastEntry.analysis).divergence).divergeIndex = 0
    /\ Val(Val(LastEntry.analysis).divergence).reason = "Message changed"
    /\ sessionStats.requestHistory[1].messageHashes[1].role = "system"
    /\ LastEntry.messageHashes[1].role = "system"

\* The step in which the tap of request r sees the end of its stream and
\* closes the downstream stream.
Closes(r) == reqs[r].dstate = "readable" /\ reqs'[r].dstate = "closed"

\* The data payloads in the text the frame buffer holds, read as a frame.
BufferedPayloads(r) == eventPayloads(<<reqs[r].sseBuffer>>, 1)

\* C38: every data payload present in a stream that ends normally is
\* forwarded to the usage extractor before the stream is closed, a final
\* frame that is not followed by a blank line included: when the stream is
\* closed, the frame buffer holds no payload that was not handed over.
C38_NoPayloadLeftAtClose ==
    [][ \A r \in ReqIds : Closes(r) => BufferedPayloads(r) = <<>> ]_vars

\* A usage record with a Claude model and a cache read or a cache write.
HasCacheActivity(usage) ==
    /\ ~IsNull(usage)
    /\ isClaude(Val(usage).model)
    /\ (Val(usage).cache_read_input_tokens > 0 \/ Val(usage).cache_creation_input_tokens > 0)

\* C39: every usage record extracted from a stream frame with a Claude model
\* and any cache activity reaches processUsageData, also when its
\* input_tokens is 0: each such record of the frames a turn of the read loop
\* completes is among the records the turn hands over.
C39_CacheActivityCounted ==
    [][ \A r \in ReqIds :
          (Processes(r) /\ reqs[r].isStreaming) =>
            \A i \in 1..Len(NewPayloads(r)) :
                HasCacheActivity(parseUsageFromEvent(NewPayloads(r)[i])) =>
                    InSeq(Val(parseUsageFromEvent(NewPayloads(r)[i])), CallsOf(r)) ]_vars

\* An intercepted request is in flight while its fetch has not returned or
\* failed, or while its tapped stream is still read.
InFlight(r) == reqs[r].phase \in {"fetching", "lookup"} \/ Reading(r)

\* C40: whenever no intercepted request is in flight (every intercepted fetch
\* has returned or failed and every tapped stream has closed, errored or been
\* cancelled), currentRequest.active is false, for the non-streaming path, a
\* response without a body and a fetch that rejects as well as for streams.
C40_InactiveWhenIdle ==
    (\A r \in ReqIds : ~InFlight(r)) => ~currentRequest.active

====
